---- MODULE Spec2Model ----
(***************************************************************************)
(* A model of the on-device transformer inference core:                    *)
(*   - the two-context parallel matmul (caller + persistent worker task,   *)
(*     binary semaphore semaDataReady, event group xEventGroup),           *)
(*   - the checkpoint loaders (resident build_transformer, streaming       *)
(*     open_sd_model) and their offset arithmetic,                         *)
(*   - the forward pass over the run state, resident and streaming.        *)
(* Floating point values are modelled as integers modulo ValMod; every     *)
(* float routine keeps the read and write footprint of the source.         *)
(***************************************************************************)
EXTENDS Integers, Sequences, FiniteSets, TLC

(***************************************************************************)
(* Bounds of the model.                                                    *)
(***************************************************************************)
MaxD == 3
MaxN == 2
MaxCalls == 2

(***************************************************************************)
(* Program constants.                                                      *)
(***************************************************************************)
TASK_0_BIT == 1
TASK_1_BIT == 2
ALL_SYNC_BITS == {TASK_0_BIT, TASK_1_BIT}

VARIABLES
    \* ---- parallel matmul ----
    callerPc,     \* position of the caller inside matmul()
    workerPc,     \* position of matmul_task()
    sem,          \* semaDataReady: number of tokens held (binary: 0 or 1)
    evBits,       \* xEventGroup: set of event bits currently set
    params,       \* *matmul_params, the shared parameter block
    callD,        \* argument d of the call in progress
    callN,        \* argument n of the call in progress
    callW,        \* argument w of the call in progress (which weight matrix)
    callX,        \* argument x of the call in progress (which input vector)
    callOut,      \* argument xout of the call in progress (which buffer)
    ci,           \* the caller's loop index i
    wi,           \* the worker's loop index i
    xout,         \* the caller-owned output vector
    wroteBy,      \* history: who wrote row i during the call in progress
    wHalfDone,    \* history: number of calls whose second half the worker finished
    calls,        \* history: number of matmul calls started
    \* ---- checkpoint loaders ----
    hdr,          \* the Config header stored in the checkpoint file
    res,          \* the Transformer built by build_transformer (resident)
    str,          \* the Transformer opened by open_sd_model (streaming)
    \* ---- forward pass ----
    fwMode,       \* transformer->use_streaming: "streaming" or "resident"
    fwPc,         \* position inside forward()
    fwTok,        \* argument token
    fwPos,        \* argument pos
    fwL,          \* the layer loop index l
    fwI,          \* the classifier loop index i (streaming)
    rsX,          \* s->x, the residual vector
    keyCache,     \* s->key_cache, flat [layer][position][kv_dim]
    valCache,     \* s->value_cache, flat [layer][position][kv_dim]
    logits,       \* s->logits
    fwRet,        \* what forward() returned: "none", "logits" or "null"
    layerBuf,     \* the layer whose bytes t->layer_buffer holds (-1: none)
    embBuf,       \* the row t->embedding_buffer holds (-1: none)
    llRet,        \* what the last direct load_layer_from_sd call returned
    snap,         \* history: the run state when forward() was entered
    cacheReads,   \* history: <<layer, position>> of the cache rows attention read
    fwFailedAt,   \* history: the load that failed in this call ("none" if none)
    afterFail,    \* history: layer computations and logit writes after that load
    oobRead,      \* history: weight data was read at an out-of-range index
    fwCalls,      \* history: number of forward calls started
    fwTrace,      \* history: the loads and computations of this call, in order
    \* ---- sampler ----
    smN,          \* sampler->vocab_size
    smTemp,       \* sampler->temperature
    smTopp,       \* sampler->topp, in units of 1/TopDen
    smRng,        \* sampler->rng_state
    smLogits,     \* the logits buffer handed to sample(): numerators
    smDen,        \* common denominator of the buffer (1: raw logits)
    smPc,         \* "ready": logits are fresh; "sampled": sample() returned
    smNext,       \* the index sample() returned
    smCoin,       \* history: the uniform draw of the call, in units of 1/CoinDen
    smDraws,      \* history: PRNG draws made by the call
    smKept,       \* history: the sorted candidates sample_topp kept (its prefix)
    smCands,      \* history: the indices that passed the cutoff filter
    smPre,        \* history: logits and rng_state when sample() was entered
    smOob,        \* history: probindex was read outside its filled slots
    smCalls,      \* history: number of sample calls
    \* ---- tokenizer ----
    tkHasBytes,   \* the vocabulary holds the 256 raw-byte tokens at ids 3..258
    tkTail,       \* the vocabulary strings after the fixed ids
    tkScores,     \* vocab_scores of the strings of tkTail
    tkText,       \* argument text of encode(), without its terminating NUL
    tkBos,        \* argument bos
    tkEos,        \* argument eos
    tkTokens,     \* tokens[0 .. *n_tokens - 1]
    tkPc,         \* position inside encode(), then "encoded", "decoded"
    tkInitial,    \* history: the token list when the merge loop was entered
    tkMerges,     \* history: merges done by the merge loop
    tkLast,       \* history: the last merge: token list before, index, id
    tkOut,        \* the bytes of the decoded pieces, concatenated
    tkOob,        \* history: t->vocab was indexed outside [0, vocab_size)
    \* ---- streaming loads between matmul calls ----
    bufWrite      \* the weight buffer an SD read is filling ("none": no read)

mmVars == <<callerPc, workerPc, sem, evBits, params, callD, callN, callW, callX,
            callOut, ci, wi, xout, wroteBy, wHalfDone, calls>>

ldVars == <<hdr, res, str>>

fwVars == <<fwMode, fwPc, fwTok, fwPos, fwL, fwI, rsX, keyCache, valCache, logits,
            fwRet, layerBuf, embBuf, llRet, snap, cacheReads, fwFailedAt,
            afterFail, oobRead, fwCalls, fwTrace>>

smVars == <<smN, smTemp, smTopp, smRng, smLogits, smDen, smPc, smNext, smCoin,
            smDraws, smKept, smCands, smPre, smOob, smCalls>>

tkVars == <<tkHasBytes, tkTail, tkScores, tkText, tkBos, tkEos, tkTokens, tkPc,
            tkInitial, tkMerges, tkLast, tkOut, tkOob>>

stVars == <<bufWrite>>

vars == <<mmVars, ldVars, fwVars, smVars, tkVars, stVars>>

\* what the matmul steps leave alone
notMm == <<ldVars, fwVars, smVars, tkVars, stVars>>
\* what the loaders leave alone
notLd == <<mmVars, fwVars, smVars, tkVars, stVars>>
\* what the forward pass leaves alone
notFw == <<mmVars, ldVars, smVars, tkVars, stVars>>
\* what the sampler leaves alone
notSm == <<mmVars, ldVars, fwVars, tkVars, stVars>>
\* what the tokenizer leaves alone
notTk == <<mmVars, ldVars, fwVars, smVars, stVars>>
\* what a streaming load leaves alone
notSt == <<mmVars, ldVars, fwVars, smVars, tkVars>>

(***************************************************************************)
(* Matrices and vectors handed to matmul.  w is row-major, d rows of n.    *)
(***************************************************************************)
WSel == 1..2
XSel == 1..2
Wmat(ws, k) == ((k * ws) % 3) + 1
Xvec(xs, j) == ((j + xs) % 2) + 1

RECURSIVE DotFrom(_, _, _, _, _)
DotFrom(ws, xs, base, n, j) ==
    IF j >= n THEN 0
    ELSE Wmat(ws, base + j) * Xvec(xs, j) + DotFrom(ws, xs, base, n, j + 1)

\* dsps_dotprod_f32_aes3(row, x, &val, n) with row = &w[i * n]
DotProd(ws, xs, i, n) == DotFrom(ws, xs, i * n, n, 0)

\* (mutant) the split point rounded up: row d/2 of an odd d is left to nobody
WorkerStartSkipsRow(d) == (d + 1) \div 2
\* (mutant) the worker is handed the whole range, the caller's rows included
WorkerStartAtZero(d) == 0
\* the start field the caller hands to the worker: d / 2
WorkerStart(d) == d \div 2

\* the caller's loop bound: i < d / 2
CallerEnd(d) == d \div 2

\* the buffers forward() hands to matmul as xout: a run-state vector, or
\* the slot of [layer, pos] in the key cache or in the value cache
MatmulOutputs == {"q", "key_cache", "value_cache"}

NoParams == [xout |-> "q", start |-> 0, end |-> 0, n |-> 0, d |-> 0, w |-> 1,
             x |-> 1, task_num |-> TASK_1_BIT]

\* xSemaphoreGive on a binary semaphore: a second token is not stored
SemGive(s) == IF s = 0 THEN 1 ELSE s

(***************************************************************************)
(* State after build_transformer / open_sd_model created the primitives:   *)
(* the semaphore was given and taken once, the worker task was created.    *)
(***************************************************************************)
MmInit ==
    /\ callerPc = "idle"
    /\ workerPc = "take"
    /\ sem = 0
    /\ evBits = {}
    /\ params = NoParams
    /\ callD = 0 /\ callN = 0 /\ callW = 1 /\ callX = 1 /\ callOut = "q"
    /\ ci = 0 /\ wi = 0
    /\ xout = [i \in 0..(MaxD - 1) |-> 0]
    /\ wroteBy = [i \in 0..(MaxD - 1) |-> "none"]
    /\ wHalfDone = 0
    /\ calls = 0

(***************************************************************************)
(* matmul(xout, x, w, n, d): the caller.                                   *)
(***************************************************************************)
\* *matmul_params = {xout, x, w, d / 2, d, n, d, TASK_1_BIT}
MatmulCall(out, d, n, ws, xs) ==
    /\ callerPc \in {"idle", "returned"}
    /\ calls < MaxCalls
    /\ params' = [xout |-> out, start |-> WorkerStart(d), end |-> d, n |-> n,
                  d |-> d, w |-> ws, x |-> xs, task_num |-> TASK_1_BIT]
    /\ callD' = d /\ callN' = n /\ callW' = ws /\ callX' = xs /\ callOut' = out
    /\ wroteBy' = [i \in 0..(MaxD - 1) |-> "none"]
    /\ calls' = calls + 1
    /\ callerPc' = "give"
    /\ UNCHANGED notMm
    /\ UNCHANGED <<workerPc, sem, evBits, ci, wi, xout, wHalfDone>>

\* xSemaphoreGive(semaDataReady)
CallerGive ==
    /\ callerPc = "give"
    /\ sem' = SemGive(sem)
    /\ ci' = 0
    /\ callerPc' = "rows"
    /\ UNCHANGED notMm
    /\ UNCHANGED <<workerPc, evBits, params, callD, callN, callW, callX, callOut, wi, xout,
                   wroteBy, wHalfDone, calls>>

\* for (i = 0; i < d / 2; i++) xout[i] = dot(&w[i * n], x, n)
CallerRow ==
    /\ callerPc = "rows"
    /\ ci < CallerEnd(callD)
    /\ xout' = [xout EXCEPT ![ci] = DotProd(callW, callX, ci, callN)]
    /\ wroteBy' = [wroteBy EXCEPT ![ci] = "caller"]
    /\ ci' = ci + 1
    /\ UNCHANGED notMm
    /\ UNCHANGED <<callerPc, workerPc, sem, evBits, params, callD, callN, callW,
                   callX, callOut, wi, wHalfDone, calls>>

\* xSemaphoreTake(semaDataReady, portMAX_DELAY): blocks while no token is held
CallerTake ==
    /\ callerPc = "rows"
    /\ ci >= CallerEnd(callD)
    /\ sem = 1
    /\ sem' = 0
    /\ callerPc' = "sync"
    /\ UNCHANGED notMm
    /\ UNCHANGED <<workerPc, evBits, params, callD, callN, callW, callX, callOut, ci, wi,
                   xout, wroteBy, wHalfDone, calls>>

\* (mutant) the caller sets its bit and goes on without waiting for the worker's
CallerSyncNoWait ==
    /\ callerPc = "sync"
    /\ evBits' = evBits \cup {TASK_0_BIT}
    /\ callerPc' = "clear"
    /\ UNCHANGED notMm
    /\ UNCHANGED <<workerPc, sem, params, callD, callN, callW, callX, callOut, ci, wi, xout,
                   wroteBy, wHalfDone, calls>>

\* xEventGroupSync(xEventGroup, TASK_0_BIT, ALL_SYNC_BITS, portMAX_DELAY):
\* sets the bit; the last arrival clears the bits and releases the waiter
CallerSync ==
    /\ callerPc = "sync"
    /\ IF evBits \cup {TASK_0_BIT} = ALL_SYNC_BITS
       THEN /\ evBits' = {}
            /\ callerPc' = "clear"
            /\ workerPc' = IF workerPc = "sync_wait" THEN "take" ELSE workerPc
       ELSE /\ evBits' = evBits \cup {TASK_0_BIT}
            /\ callerPc' = "sync_wait"
            /\ workerPc' = workerPc
    /\ UNCHANGED notMm
    /\ UNCHANGED <<sem, params, callD, callN, callW, callX, callOut, ci, wi, xout, wroteBy,
                   wHalfDone, calls>>

\* xEventGroupClearBits(xEventGroup, ALL_SYNC_BITS), then matmul returns
CallerClear ==
    /\ callerPc = "clear"
    /\ evBits' = evBits \ ALL_SYNC_BITS
    /\ callerPc' = "returned"
    /\ UNCHANGED notMm
    /\ UNCHANGED <<workerPc, sem, params, callD, callN, callW, callX, callOut, ci, wi, xout,
                   wroteBy, wHalfDone, calls>>

(***************************************************************************)
(* matmul_task(params): the worker.  Every field is read through p.        *)
(***************************************************************************)
\* xSemaphoreTake(semaDataReady, portMAX_DELAY); then i = p->start
WorkerTake ==
    /\ workerPc = "take"
    /\ sem = 1
    /\ sem' = 0
    /\ wi' = params.start
    /\ workerPc' = "rows"
    /\ UNCHANGED notMm
    /\ UNCHANGED <<callerPc, evBits, params, callD, callN, callW, callX, callOut, ci, xout,
                   wroteBy, wHalfDone, calls>>

\* for (i = p->start; i < p->end; i++) p->xout[i] = dot(&p->w[i * p->n], p->x, p->n)
WorkerRow ==
    /\ workerPc = "rows"
    /\ wi < params.end
    /\ xout' = [xout EXCEPT ![wi] = DotProd(params.w, params.x, wi, params.n)]
    /\ wroteBy' = [wroteBy EXCEPT ![wi] = "worker"]
    /\ wi' = wi + 1
    /\ UNCHANGED notMm
    /\ UNCHANGED <<callerPc, workerPc, sem, evBits, params, callD, callN, callW,
                   callX, callOut, ci, wHalfDone, calls>>

\* xSemaphoreGive(semaDataReady) after the loop
WorkerGive ==
    /\ workerPc = "rows"
    /\ wi >= params.end
    /\ sem' = SemGive(sem)
    /\ wHalfDone' = wHalfDone + 1
    /\ workerPc' = "sync"
    /\ UNCHANGED notMm
    /\ UNCHANGED <<callerPc, evBits, params, callD, callN, callW, callX, callOut, ci, wi,
                   xout, wroteBy, calls>>

\* xEventGroupSync(xEventGroup, p->task_num, ALL_SYNC_BITS, portMAX_DELAY)
WorkerSync ==
    /\ workerPc = "sync"
    /\ IF evBits \cup {params.task_num} = ALL_SYNC_BITS
       THEN /\ evBits' = {}
            /\ workerPc' = "take"
            /\ callerPc' = IF callerPc = "sync_wait" THEN "clear" ELSE callerPc
       ELSE /\ evBits' = evBits \cup {params.task_num}
            /\ workerPc' = "sync_wait"
            /\ callerPc' = callerPc
    /\ UNCHANGED notMm
    /\ UNCHANGED <<sem, params, callD, callN, callW, callX, callOut, ci, wi, xout, wroteBy,
                   wHalfDone, calls>>

CallerStep ==
    \/ \E out \in MatmulOutputs, d \in 1..MaxD, n \in 1..MaxN, ws \in WSel,
          xs \in XSel :
           MatmulCall(out, d, n, ws, xs)
    \/ CallerGive
    \/ CallerRow
    \/ CallerTake
    \/ CallerSync
    \/ CallerClear

WorkerStep ==
    \/ WorkerTake
    \/ WorkerRow
    \/ WorkerGive
    \/ WorkerSync

MatmulNext == CallerStep \/ WorkerStep


(***************************************************************************)
(* Checkpoint loaders.  Offsets into the file are kept as numbers: element *)
(* offsets (floats from the start of the file) for the resident pointer    *)
(* walk, byte offsets for the streaming layer table.                       *)
(***************************************************************************)
MaxLayers == 2
MaxVocab == 2
MaxSeq == 2

\* sizeof(Config): seven ints;  sizeof(v4sf): float
SizeofConfig == 28
SizeofFloat == 4

Abs(v) == IF v < 0 THEN -v ELSE v

\* the headers of well-formed checkpoint files: n_heads divides dim,
\* n_kv_heads divides n_heads; vocab_size carries the sharing flag in its sign
Headers ==
    { h \in [dim : {2, 4}, hidden_dim : {2, 3}, n_layers : 1..MaxLayers,
             n_heads : {1, 2}, n_kv_heads : {1, 2},
             vocab_size : (-MaxVocab..MaxVocab) \ {0}, seq_len : 1..MaxSeq] :
        h.n_heads % h.n_kv_heads = 0 }

NoConfig == [dim |-> 0, hidden_dim |-> 0, n_layers |-> 0, n_heads |-> 0,
             n_kv_heads |-> 0, vocab_size |-> 0, seq_len |-> 0]

Tensors == <<"rms_att_weight", "wq", "wk", "wv", "wo", "rms_ffn_weight",
             "w1", "w2", "w3">>
TensorSet == {Tensors[k] : k \in 1..Len(Tensors)}

\* the activation buffers and caches of RunState allocated by malloc_run_state
RunStateBufs == {"x", "xb", "xb2", "hb", "hb2", "q", "key_cache", "value_cache",
                 "att", "logits"}

HeadSize(p) == p.dim \div p.n_heads
KvDim(p) == (p.dim * p.n_kv_heads) \div p.n_heads

\* (mutant) the sign test of the sharing flag inverted
SharedWeightsNegative(v) == IF v < 0 THEN 1 ELSE 0
\* int shared_weights = config->vocab_size > 0 ? 1 : 0
SharedWeights(v) == IF v > 0 THEN 1 ELSE 0

\* memory_map_weights(w, p, ptr, shared_weights): the cumulative pointer walk
MemoryMapWeights(p, ptr, shared) ==
    LET hs   == HeadSize(p)
        L    == p.n_layers
        tok  == ptr
        att  == tok + p.vocab_size * p.dim
        wq   == att + L * p.dim
        wk   == wq + L * p.dim * (p.n_heads * hs)
        wv   == wk + L * p.dim * (p.n_kv_heads * hs)
        wo   == wv + L * p.dim * (p.n_kv_heads * hs)
        ffn  == wo + L * (p.n_heads * hs) * p.dim
        w1   == ffn + L * p.dim
        w2   == w1 + L * p.dim * p.hidden_dim
        w3   == w2 + L * p.hidden_dim * p.dim
        fin  == w3 + L * p.dim * p.hidden_dim
        rope == fin + p.dim
        cls  == rope + (p.seq_len * hs) \div 2 + (p.seq_len * hs) \div 2
    IN  [token_embedding_table |-> tok, rms_att_weight |-> att, wq |-> wq,
         wk |-> wk, wv |-> wv, wo |-> wo, rms_ffn_weight |-> ffn, w1 |-> w1,
         w2 |-> w2, w3 |-> w3, rms_final_weight |-> fin,
         wcls |-> IF shared # 0 THEN tok ELSE cls]

NoWeights == [token_embedding_table |-> 0, rms_att_weight |-> 0, wq |-> 0,
              wk |-> 0, wv |-> 0, wo |-> 0, rms_ffn_weight |-> 0, w1 |-> 0,
              w2 |-> 0, w3 |-> 0, rms_final_weight |-> 0, wcls |-> 0]

\* the per-layer stride forward() adds to each resident tensor pointer
LayerStride(p, t) ==
    CASE t \in {"rms_att_weight", "rms_ffn_weight"} -> p.dim
      [] t \in {"wq", "wo"} -> p.dim * p.dim
      [] t \in {"wk", "wv"} -> p.dim * KvDim(p)
      [] OTHER -> p.dim * p.hidden_dim

\* element offset in the file of tensor t of layer l, as forward() reads it
\* in resident mode: w->t + l * stride
ResidentTensor(w, p, l, t) == w[t] + l * LayerStride(p, t)

\* the byte length of one layer as calculate_layer_offsets adds it up
LayerSize(p) ==
    LET hs == HeadSize(p)
    IN  p.dim * SizeofFloat
        + p.dim * (p.n_heads * hs) * SizeofFloat
        + p.dim * (p.n_kv_heads * hs) * SizeofFloat
        + p.dim * (p.n_kv_heads * hs) * SizeofFloat
        + (p.n_heads * hs) * p.dim * SizeofFloat
        + p.dim * SizeofFloat
        + p.dim * p.hidden_dim * SizeofFloat
        + p.hidden_dim * p.dim * SizeofFloat
        + p.dim * p.hidden_dim * SizeofFloat

\* calculate_layer_offsets(t): layer_offsets[l] for l = 0 .. n_layers-1,
\* kept as a sequence (index l + 1)
CalculateLayerOffsets(p) ==
    [k \in 1..p.n_layers |->
        [offset |-> SizeofConfig + p.vocab_size * p.dim * SizeofFloat
                    + (k - 1) * LayerSize(p),
         size   |-> LayerSize(p)]]

\* load_layer_from_sd: the pointer walk that rebinds the weights into the
\* layer buffer; element offsets from the start of the buffer
LayerBufferMap(p) ==
    LET hs  == HeadSize(p)
        att == 0
        wq  == att + p.dim
        wk  == wq + p.dim * (p.n_heads * hs)
        wv  == wk + p.dim * (p.n_kv_heads * hs)
        wo  == wv + p.dim * (p.n_kv_heads * hs)
        ffn == wo + (p.n_heads * hs) * p.dim
        w1  == ffn + p.dim
        w2  == w1 + p.dim * p.hidden_dim
        w3  == w2 + p.hidden_dim * p.dim
    IN  [rms_att_weight |-> att, wq |-> wq, wk |-> wk, wv |-> wv, wo |-> wo,
         rms_ffn_weight |-> ffn, w1 |-> w1, w2 |-> w2, w3 |-> w3]

\* byte offset in the file of tensor t of layer l as streaming mode reads it:
\* the layer read starts at layer_offsets[l].offset, t sits at its sub-offset
StreamingTensorByte(offs, p, l, t) ==
    offs[l + 1].offset + LayerBufferMap(p)[t] * SizeofFloat

\* where a load can fail: opening the file, a short read, an allocation
NoFail == [at |-> "none", buf |-> "-"]
CallocFails == [at : {"calloc"}, buf : RunStateBufs]
BuildFails ==
    [at : {"none", "open", "header_read", "data_malloc", "data_read",
           "params_malloc"}, buf : {"-"}] \cup CallocFails
OpenFails ==
    [at : {"none", "open", "header_read", "layer_buffer", "embedding_buffer",
           "rms_final_malloc", "rms_final_read", "params_malloc"}, buf : {"-"}]
    \cup CallocFails

\* malloc_run_state: the buffers whose calloc succeeded
MallocRunState(f) == IF f.at = "calloc" THEN RunStateBufs \ {f.buf} ELSE RunStateBufs

\* header as stored in t->config after the sign of vocab_size was taken off
ReadConfig(h) == [h EXCEPT !.vocab_size = Abs(h.vocab_size)]

NoResident ==
    [st |-> "unloaded", config |-> NoConfig, weights |-> NoWeights,
     shared |-> 0, data |-> FALSE, rs |-> {}, params |-> FALSE, task |-> FALSE]

NoStreaming ==
    [st |-> "unloaded", config |-> NoConfig, sd_file |-> FALSE,
     layer_buffer |-> FALSE, layer_buffer_size |-> 0,
     embedding_buffer |-> FALSE, embedding_offset |-> 0, layer_offsets |-> <<>>,
     rms_final |-> FALSE, rms_final_offset |-> 0, wcls |-> "null", rs |-> {},
     params |-> FALSE, task |-> FALSE, use_streaming |-> FALSE]

\* read_checkpoint, then the rest of build_transformer
BuildTransformerResult(h, f) ==
    CASE f.at = "open" -> [NoResident EXCEPT !.st = "failed"]
      [] f.at = "header_read" -> [NoResident EXCEPT !.st = "failed"]
      [] f.at \in {"data_malloc", "data_read"} ->
            [NoResident EXCEPT !.st = "failed", !.config = ReadConfig(h),
                               !.shared = SharedWeights(h.vocab_size)]
      [] OTHER ->
            [st |-> "ok",
             config |-> ReadConfig(h),
             weights |-> MemoryMapWeights(ReadConfig(h),
                                          SizeofConfig \div SizeofFloat,
                                          SharedWeights(h.vocab_size)),
             shared |-> SharedWeights(h.vocab_size),
             data |-> TRUE,
             rs |-> MallocRunState(f),
             params |-> (f.at # "params_malloc"),
             task |-> TRUE]

BuildTransformer(f) ==
    /\ res.st = "unloaded"
    /\ res' = BuildTransformerResult(hdr, f)
    /\ UNCHANGED <<hdr, str, notLd>>

\* open_sd_model, every return of it
OpenSdModelResult(h, f) ==
    LET p     == ReadConfig(h)
        offs  == CalculateLayerOffsets(p)
        s1    == [NoStreaming EXCEPT !.st = "failed"]
        s2    == [s1 EXCEPT !.sd_file = TRUE, !.config = p,
                            !.layer_buffer_size =
                                p.dim * p.hidden_dim * SizeofFloat * 3]
        s3    == [s2 EXCEPT !.layer_buffer = TRUE,
                            !.embedding_offset = SizeofConfig]
        s4    == [s3 EXCEPT !.embedding_buffer = TRUE, !.layer_offsets = offs,
                            !.rms_final_offset =
                                offs[p.n_layers].offset + offs[p.n_layers].size]
        s5    == [s4 EXCEPT !.rms_final = TRUE]
        s6    == [s5 EXCEPT !.wcls = "embedding_buffer", !.rs = MallocRunState(f)]
    IN  CASE f.at = "open" -> s1
          [] f.at = "header_read" -> s1
          [] f.at = "layer_buffer" -> [s2 EXCEPT !.sd_file = FALSE]
          [] f.at = "embedding_buffer" -> [s3 EXCEPT !.sd_file = FALSE,
                                                     !.layer_buffer = FALSE]
          [] f.at = "rms_final_malloc" -> s4
          [] f.at = "rms_final_read" -> s5
          [] f.at = "calloc" -> s6
          [] OTHER -> [s6 EXCEPT !.st = "ok",
                                 !.params = (f.at # "params_malloc"),
                                 !.task = TRUE, !.use_streaming = TRUE]

OpenSdModel(f) ==
    /\ str.st = "unloaded"
    /\ str' = OpenSdModelResult(hdr, f)
    /\ UNCHANGED <<hdr, res, notLd>>

LdInit ==
    /\ hdr \in Headers
    /\ res = NoResident
    /\ str = NoStreaming

\* no load in progress: the loader state of the other specifications
LdIdle ==
    /\ hdr = NoConfig
    /\ res = NoResident
    /\ str = NoStreaming

LoadNext ==
    \/ \E f \in BuildFails : BuildTransformer(f)
    \/ \E f \in OpenFails : OpenSdModel(f)


(***************************************************************************)
(* Forward pass.  The session runs the small checkpoint FwConfig; matmul   *)
(* is used through the product it returns.  A float is an integer modulo   *)
(* ValMod: rmsnorm, softmax, the rotary rotation and SiLU are replaced by  *)
(* integer functions of exactly the operands the source reads.             *)
(***************************************************************************)
MaxFwCalls == 2
ValMod == 3

\* the Config of the checkpoint the session has loaded
FwConfig == [dim |-> 2, hidden_dim |-> 2, n_layers |-> 2, n_heads |-> 1,
             n_kv_heads |-> 1, vocab_size |-> 2, seq_len |-> 2]

Vals == 0..(ValMod - 1)
Mod(v) == v % ValMod

\* the float stored at element offset k of the checkpoint file
FileElem(k) == Mod(((k * 7 + (k \div 3) * 5 + 1) % 11))

\* a vector computed once: the function is built in full where it is defined
Eager(f) == f @@ <<>>

RECURSIVE SumF(_, _)
SumF(f, n) == IF n = 0 THEN 0 ELSE f[n - 1] + SumF(f, n - 1)

RECURSIVE MaxF(_, _)
MaxF(f, n) ==
    IF n = 1 THEN f[0]
    ELSE LET m == MaxF(f, n - 1) IN IF f[n - 1] > m THEN f[n - 1] ELSE m

\* the pointers of the resident session and the table of the streaming one
FwWeights == MemoryMapWeights(FwConfig, SizeofConfig \div SizeofFloat, 1)
FwLayerOffsets == CalculateLayerOffsets(FwConfig)

\* element offset in the file behind the weight pointer of tensor t:
\* resident w->t + l * stride; streaming the pointer into the layer buffer,
\* which holds the bytes of layer lb
TensorBase(mode, l, lb, t) ==
    IF mode = "streaming"
    THEN StreamingTensorByte(FwLayerOffsets, FwConfig, lb, t) \div SizeofFloat
    ELSE ResidentTensor(FwWeights, FwConfig, l, t)

\* element offset in the file of row `token` of the embedding table
EmbeddingRow(mode, token) ==
    IF mode = "streaming"
    THEN (SizeofConfig + token * (FwConfig.dim * SizeofFloat)) \div SizeofFloat
    ELSE FwWeights.token_embedding_table + token * FwConfig.dim

\* element offset in the file of the final norm weights
FinalNormBase(mode) ==
    IF mode = "streaming"
    THEN (FwLayerOffsets[FwConfig.n_layers].offset
          + FwLayerOffsets[FwConfig.n_layers].size) \div SizeofFloat
    ELSE FwWeights.rms_final_weight

\* rmsnorm(o, x, weight, size): ss is the normalising factor, never zero
RmsNorm(x, wbase, size) ==
    LET ss == 1 + (SumF([j \in 0..(size - 1) |-> x[j] * x[j]], size) % (ValMod - 1))
    IN  Eager([j \in 0..(size - 1) |-> Mod(FileElem(wbase + j) * (ss * x[j]))])

\* softmax(x, size): rewrites x[0 .. size-1], leaves the rest of x
SoftmaxExp(x, size, m) == Eager([t \in 0..(size - 1) |-> Mod(x[t] - m + ValMod) + 1])
SoftmaxDiv(x, size, e, sum) ==
    Eager([t \in DOMAIN x |-> IF t < size THEN Mod(e[t] * sum) ELSE x[t]])
SoftmaxSum(x, size, e) == SoftmaxDiv(x, size, e, SumF(e, size))
Softmax(x, size) == SoftmaxSum(x, size, SoftmaxExp(x, size, MaxF(x, size)))

\* matmul(xout, x, w, n, d): xout[i] = sum over j of w[i*n + j] * x[j]
MatVec(xin, wbase, n, d) ==
    Eager([i \in 0..(d - 1) |->
        Mod(SumF([j \in 0..(n - 1) |-> FileElem(wbase + i * n + j) * xin[j]], n))])

\* the rotation of the pair (v0, v1) at position pos: cos and sin of pos * freq
RopeCos(pos, head_dim) == Mod(1 + pos * (head_dim + 1))
RopeSin(pos, head_dim) == Mod(pos * (head_dim + 2))
Rope(vec, pos, hs, limit) ==
    Eager([i \in DOMAIN vec |->
        IF i >= limit THEN vec[i]
        ELSE LET b  == i - (i % 2)
                 hd == b % hs
                 c  == RopeCos(pos, hd)
                 sn == RopeSin(pos, hd)
             IN  IF i = b
                 THEN Mod(vec[b] * c - vec[b + 1] * sn + ValMod * ValMod)
                 ELSE Mod(vec[b] * sn + vec[b + 1] * c)])

\* loff + t * kv_dim + i, with loff = l * seq_len * kv_dim
KvIndex(l, t, i) ==
    l * FwConfig.seq_len * KvDim(FwConfig) + t * KvDim(FwConfig) + i

\* (mutant) the K/V slot taken without the position offset
KvSlotIgnoresPos(l, pos, i) == KvIndex(l, 0, i)
\* s->k = s->key_cache + loff + pos * kv_dim (s->v alike): element i of the slot
KvSlot(l, pos, i) == KvIndex(l, pos, i)

\* (mutant) attention runs over the whole cache instead of the filled prefix
AttPositionsWholeCache(pos) == 0..(FwConfig.seq_len - 1)
\* for (int t = 0; t <= pos; t++): the cache positions attention visits
AttPositions(pos) == 0..pos

\* score /= sqrtf(head_size)
ScaleScore(v, hs) == Mod(v + hs)

\* val *= 1 / (1 + expf(-val))
Silu(v) == Mod(v * (v + 1))

\* the three projections of xb and the rotation of q and k
Qkv(xb, l, pos, mode, lb) ==
    [q |-> Rope(MatVec(xb, TensorBase(mode, l, lb, "wq"), FwConfig.dim, FwConfig.dim),
                pos, HeadSize(FwConfig), FwConfig.dim),
     k |-> Rope(MatVec(xb, TensorBase(mode, l, lb, "wk"), FwConfig.dim,
                       KvDim(FwConfig)),
                pos, HeadSize(FwConfig), KvDim(FwConfig)),
     v |-> MatVec(xb, TensorBase(mode, l, lb, "wv"), FwConfig.dim, KvDim(FwConfig))]

\* matmul writes through s->k / s->v: the cache with the slot of (l, pos) replaced
StoreSlot(cache, vec, l, pos) ==
    Eager([c \in DOMAIN cache |->
        IF \E i \in 0..(KvDim(FwConfig) - 1) : KvSlot(l, pos, i) = c
        THEN vec[CHOOSE i \in 0..(KvDim(FwConfig) - 1) : KvSlot(l, pos, i) = c]
        ELSE cache[c]])

\* att[t] for head h, before softmax
AttScores(q, kc, l, pos, h) ==
    Eager([t \in AttPositions(pos) \cup (0..pos) |->
        ScaleScore(
            Mod(SumF([i \in 0..(HeadSize(FwConfig) - 1) |->
                    q[h * HeadSize(FwConfig) + i]
                    * kc[KvIndex(l, t, (h \div (FwConfig.n_heads \div FwConfig.n_kv_heads))
                                         * HeadSize(FwConfig) + i)]],
                HeadSize(FwConfig))),
            HeadSize(FwConfig))])

\* xb[c]: the attention-weighted sum of the values of the visited positions
AttMix(att, vc, l, pos, c) ==
    Mod(SumF([n \in 0..(Cardinality(AttPositions(pos)) - 1) |->
            att[n] * vc[KvIndex(l, n,
                         ((c \div HeadSize(FwConfig))
                            \div (FwConfig.n_heads \div FwConfig.n_kv_heads))
                         * HeadSize(FwConfig) + (c % HeadSize(FwConfig)))]],
        Cardinality(AttPositions(pos))))

\* the multi-head attention loop: the new s->xb
Attention(q, kc, vc, l, pos) ==
    Eager([c \in 0..(FwConfig.dim - 1) |->
        AttMix(Softmax(AttScores(q, kc, l, pos, c \div HeadSize(FwConfig)), pos + 1),
               vc, l, pos, c)])

\* x[i] += delta[i]
Residual(x, delta) == Eager([c \in DOMAIN x |-> Mod(x[c] + delta[c])])

\* attention of layer l once q, k, v are known: caches written, then read
AttentionOut(x, kc1, vc1, q, l, pos, mode, lb) ==
    [x  |-> Residual(x, MatVec(Attention(q, kc1, vc1, l, pos),
                               TensorBase(mode, l, lb, "wo"),
                               FwConfig.dim, FwConfig.dim)),
     kc |-> kc1,
     vc |-> vc1]

AttentionStore(x, kc, vc, qkv, l, pos, mode, lb) ==
    AttentionOut(x, StoreSlot(kc, qkv.k, l, pos), StoreSlot(vc, qkv.v, l, pos),
                 qkv.q, l, pos, mode, lb)

\* the attention half of the layer loop: new x, key cache and value cache
AttentionBlock(x, kc, vc, l, pos, mode, lb) ==
    AttentionStore(x, kc, vc,
                   Qkv(RmsNorm(x, TensorBase(mode, l, lb, "rms_att_weight"),
                               FwConfig.dim), l, pos, mode, lb),
                   l, pos, mode, lb)

\* SwiGLU: hb[i] = silu(hb[i]) * hb2[i]
SwiGlu(hb, hb2) == Eager([c \in DOMAIN hb |-> Mod(Silu(hb[c]) * hb2[c])])

\* the feed-forward half once xb = rmsnorm(x, rms_ffn) is known
FfnOut(x, xb, l, mode, lb) ==
    Residual(x,
        MatVec(SwiGlu(MatVec(xb, TensorBase(mode, l, lb, "w1"), FwConfig.dim,
                             FwConfig.hidden_dim),
                      MatVec(xb, TensorBase(mode, l, lb, "w3"), FwConfig.dim,
                             FwConfig.hidden_dim)),
               TensorBase(mode, l, lb, "w2"), FwConfig.hidden_dim, FwConfig.dim))

FfnBlock(x, l, mode, lb) ==
    FfnOut(x, RmsNorm(x, TensorBase(mode, l, lb, "rms_ffn_weight"), FwConfig.dim),
           l, mode, lb)

LayerFfn(a, l, mode, lb) == [x |-> FfnBlock(a.x, l, mode, lb), kc |-> a.kc, vc |-> a.vc]

\* one iteration of the layer loop of forward(), after the layer is bound:
\* the new x, key cache and value cache
LayerStep(x, kc, vc, l, pos, mode, lb) ==
    LayerFfn(AttentionBlock(x, kc, vc, l, pos, mode, lb), l, mode, lb)

\* logits[i] of the streamed classifier: x . embedding row i
ClsRow(x, i) ==
    Mod(SumF([j \in 0..(FwConfig.dim - 1) |->
               x[j] * FileElem(EmbeddingRow("streaming", i) + j)], FwConfig.dim))

ZeroVec(n) == [i \in 0..(n - 1) |-> 0]
CacheCells == 0..(FwConfig.n_layers * FwConfig.seq_len * KvDim(FwConfig) - 1)
NoLayerLoad == [called |-> FALSE, layer |-> 0, ok |-> FALSE, read |-> FALSE]

\* load_token_embedding(t, token): the range check, then seek and read (io)
LoadTokenEmbedding(token, io) ==
    /\ token >= 0
    /\ token < FwConfig.vocab_size
    /\ io

\* load_layer_from_sd(t, layer): use_streaming, the range check, seek and read
LoadLayerFromSd(mode, layer, io) ==
    /\ mode = "streaming"
    /\ layer >= 0
    /\ layer < FwConfig.n_layers
    /\ io

\* (mutant) the result of a load is not looked at
AfterLoadIgnoresFailure(ok, next) == next
\* if (!load_...) return nullptr;  otherwise go on
AfterLoad(ok, next) == IF ok THEN next ELSE "done"

\* (mutant) the layer loop reloads the layer buffer for layer 0 only
NextLayerPcNoReload(mode, l) ==
    IF l < FwConfig.n_layers THEN "layer" ELSE "final"
\* the end of one iteration of the layer loop: the next iteration starts
\* with load_layer_from_sd when streaming, the loop ends at n_layers
NextLayerPc(mode, l) ==
    IF l < FwConfig.n_layers
    THEN (IF mode = "streaming" THEN "load" ELSE "layer")
    ELSE "final"

\* the entries of the history of a forward call
TokenLoad(token, ok) == [ev |-> "load_token", arg |-> token, ok |-> ok]
LayerLoaded(l, ok) == [ev |-> "load_layer", arg |-> l, ok |-> ok]
LayerComputed(l) == [ev |-> "layer", arg |-> l, ok |-> TRUE]
FinalNormed == [ev |-> "final_norm", arg |-> 0, ok |-> TRUE]
RowLoad(i, ok) == [ev |-> "load_row", arg |-> i, ok |-> ok]

\* the run state after a load that succeeded with every allocation, before
\* the first token: calloc zeroed every buffer
FwBuffersInit ==
    /\ fwPc = "idle"
    /\ fwTok = 0 /\ fwPos = 0 /\ fwL = 0 /\ fwI = 0
    /\ rsX = ZeroVec(FwConfig.dim)
    /\ keyCache = [c \in CacheCells |-> 0]
    /\ valCache = [c \in CacheCells |-> 0]
    /\ logits = ZeroVec(FwConfig.vocab_size)
    /\ fwRet = "none"
    /\ layerBuf = -1
    /\ embBuf = -1
    /\ llRet = NoLayerLoad
    /\ snap = [x |-> ZeroVec(FwConfig.dim), kc |-> [c \in CacheCells |-> 0],
               vc |-> [c \in CacheCells |-> 0],
               logits |-> ZeroVec(FwConfig.vocab_size)]
    /\ cacheReads = {}
    /\ fwFailedAt = "none"
    /\ afterFail = 0
    /\ oobRead = FALSE
    /\ fwCalls = 0
    /\ fwTrace = <<>>

FwInit == fwMode \in {"resident", "streaming"} /\ FwBuffersInit

\* no forward pass in progress: the forward state of the other specifications
FwIdle == fwMode = "resident" /\ FwBuffersInit

\* forward(transformer, token, pos) is entered; the run state is not null
ForwardCall(token, pos) ==
    /\ fwPc \in {"idle", "done"}
    /\ fwCalls < MaxFwCalls
    /\ fwTok' = token /\ fwPos' = pos /\ fwL' = 0 /\ fwI' = 0
    /\ fwRet' = "none"
    /\ fwPc' = "embed"
    /\ snap' = [x |-> rsX, kc |-> keyCache, vc |-> valCache, logits |-> logits]
    /\ cacheReads' = {}
    /\ fwFailedAt' = "none"
    /\ afterFail' = 0
    /\ oobRead' = FALSE
    /\ llRet' = NoLayerLoad
    /\ fwCalls' = fwCalls + 1
    /\ fwTrace' = <<>>
    /\ UNCHANGED <<fwMode, rsX, keyCache, valCache, logits, layerBuf, embBuf>>
    /\ UNCHANGED notFw

\* streaming: load_token_embedding(token), then memcpy(x, embedding_buffer)
EmbedStreaming(io) ==
    /\ fwPc = "embed"
    /\ fwMode = "streaming"
    /\ LET ok == LoadTokenEmbedding(fwTok, io)
           inRange == fwTok >= 0 /\ fwTok < FwConfig.vocab_size
       IN  /\ embBuf' = IF ok THEN fwTok ELSE IF inRange THEN -1 ELSE embBuf
           /\ rsX' = IF ok
                     THEN [j \in 0..(FwConfig.dim - 1) |->
                              FileElem(EmbeddingRow(fwMode, fwTok) + j)]
                     ELSE rsX
           /\ fwPc' = AfterLoad(ok, "load")
           /\ fwRet' = IF ok THEN fwRet ELSE "null"
           /\ fwFailedAt' = IF ok THEN fwFailedAt ELSE "embedding"
    /\ fwTrace' = Append(fwTrace, TokenLoad(fwTok, LoadTokenEmbedding(fwTok, io)))
    /\ UNCHANGED <<fwMode, fwTok, fwPos, fwL, fwI, keyCache, valCache, logits,
                   layerBuf, llRet, snap, cacheReads, afterFail, oobRead, fwCalls>>
    /\ UNCHANGED notFw

\* resident: memcpy(x, token_embedding_table + token * dim), no range check;
\* a row outside the table is an out-of-bounds read of whatever lies there
EmbedResident ==
    /\ fwPc = "embed"
    /\ fwMode = "resident"
    /\ IF fwTok >= 0 /\ fwTok < FwConfig.vocab_size
       THEN /\ rsX' = [j \in 0..(FwConfig.dim - 1) |->
                          FileElem(EmbeddingRow(fwMode, fwTok) + j)]
            /\ oobRead' = oobRead
       ELSE /\ rsX' \in [0..(FwConfig.dim - 1) -> Vals]
            /\ oobRead' = TRUE
    /\ fwPc' = "layer"
    /\ UNCHANGED <<fwMode, fwTok, fwPos, fwL, fwI, keyCache, valCache, logits,
                   fwRet, layerBuf, embBuf, llRet, snap, cacheReads, fwFailedAt,
                   afterFail, fwCalls,
                   fwTrace>>
    /\ UNCHANGED notFw

\* streaming: load_layer_from_sd(transformer, l) at the top of the layer loop
LayerLoad(io) ==
    /\ fwPc = "load"
    /\ LET ok == LoadLayerFromSd(fwMode, fwL, io)
       IN  /\ layerBuf' = IF ok THEN fwL ELSE -1
           /\ fwPc' = AfterLoad(ok, "layer")
           /\ fwRet' = IF ok THEN fwRet ELSE "null"
           /\ fwFailedAt' = IF ok THEN fwFailedAt ELSE "layer"
    /\ fwTrace' = Append(fwTrace, LayerLoaded(fwL, LoadLayerFromSd(fwMode, fwL, io)))
    /\ UNCHANGED <<fwMode, fwTok, fwPos, fwL, fwI, rsX, keyCache, valCache, logits,
                   embBuf, llRet, snap, cacheReads, afterFail, oobRead, fwCalls>>
    /\ UNCHANGED notFw

\* the body of the layer loop: attention and feed-forward of layer l
LayerCompute ==
    /\ fwPc = "layer"
    /\ LET r == LayerStep(rsX, keyCache, valCache, fwL, fwPos, fwMode, layerBuf)
       IN  /\ rsX' = r.x
           /\ keyCache' = r.kc
           /\ valCache' = r.vc
    /\ cacheReads' = cacheReads \cup {<<fwL, t>> : t \in AttPositions(fwPos)}
    /\ afterFail' = IF fwFailedAt # "none" THEN afterFail + 1 ELSE afterFail
    /\ fwL' = fwL + 1
    /\ fwPc' = NextLayerPc(fwMode, fwL + 1)
    /\ fwTrace' = Append(fwTrace, LayerComputed(fwL))
    /\ UNCHANGED <<fwMode, fwTok, fwPos, fwI, logits, fwRet, layerBuf, embBuf,
                   llRet, snap, fwFailedAt, oobRead, fwCalls>>
    /\ UNCHANGED notFw

\* rmsnorm(x, x, w->rms_final_weight, dim)
FinalNorm ==
    /\ fwPc = "final"
    /\ rsX' = RmsNorm(rsX, FinalNormBase(fwMode), FwConfig.dim)
    /\ fwI' = 0
    /\ fwPc' = "cls"
    /\ fwTrace' = Append(fwTrace, FinalNormed)
    /\ UNCHANGED <<fwMode, fwTok, fwPos, fwL, keyCache, valCache, logits, fwRet,
                   layerBuf, embBuf, llRet, snap, cacheReads, fwFailedAt,
                   afterFail, oobRead, fwCalls>>
    /\ UNCHANGED notFw

\* streaming classifier: load_token_embedding(i), then logits[i] = x . row;
\* after the last row forward returns s->logits
ClsStreaming(io) ==
    /\ fwPc = "cls"
    /\ fwMode = "streaming"
    /\ fwI < FwConfig.vocab_size
    /\ LET ok == LoadTokenEmbedding(fwI, io)
           last == fwI + 1 >= FwConfig.vocab_size
       IN  /\ embBuf' = IF ok THEN fwI ELSE -1
           /\ logits' = IF ok THEN [logits EXCEPT ![fwI] = ClsRow(rsX, fwI)]
                        ELSE logits
           /\ fwI' = IF ok THEN fwI + 1 ELSE fwI
           /\ fwPc' = AfterLoad(ok, IF last THEN "done" ELSE "cls")
           /\ fwRet' = IF ok THEN (IF last THEN "logits" ELSE fwRet) ELSE "null"
           /\ afterFail' = IF ok /\ fwFailedAt # "none" THEN afterFail + 1
                           ELSE afterFail
           /\ fwFailedAt' = IF ok THEN fwFailedAt ELSE "vocab_row"
    /\ fwTrace' = Append(fwTrace, RowLoad(fwI, LoadTokenEmbedding(fwI, io)))
    /\ UNCHANGED <<fwMode, fwTok, fwPos, fwL, rsX, keyCache, valCache, layerBuf,
                   llRet, snap, cacheReads, oobRead, fwCalls>>
    /\ UNCHANGED notFw

\* resident classifier: matmul(s->logits, x, w->wcls, dim, vocab_size)
ClsResident ==
    /\ fwPc = "cls"
    /\ fwMode = "resident"
    /\ logits' = MatVec(rsX, FwWeights.wcls, FwConfig.dim, FwConfig.vocab_size)
    /\ fwPc' = "done"
    /\ fwRet' = "logits"
    /\ UNCHANGED <<fwMode, fwTok, fwPos, fwL, fwI, rsX, keyCache, valCache,
                   layerBuf, embBuf, llRet, snap, cacheReads, fwFailedAt,
                   afterFail, oobRead, fwCalls,
                   fwTrace>>
    /\ UNCHANGED notFw

\* load_layer_from_sd(t, layer) called on its own with any layer index
LoadLayerCall(layer, io) ==
    /\ fwPc = "done"
    /\ ~llRet.called
    /\ LET ok == LoadLayerFromSd(fwMode, layer, io)
           inRange == layer >= 0 /\ layer < FwConfig.n_layers
           reads == fwMode = "streaming" /\ inRange
       IN  /\ llRet' = [called |-> TRUE, layer |-> layer, ok |-> ok,
                        read |-> reads]
           /\ layerBuf' = IF ok THEN layer ELSE IF reads THEN -1 ELSE layerBuf
    /\ UNCHANGED <<fwMode, fwPc, fwTok, fwPos, fwL, fwI, rsX, keyCache, valCache,
                   logits, fwRet, embBuf, snap, cacheReads, fwFailedAt, afterFail,
                   oobRead, fwCalls,
                   fwTrace>>
    /\ UNCHANGED notFw

ForwardNext ==
    \/ \E token \in (-1)..FwConfig.vocab_size, pos \in 0..(FwConfig.seq_len - 1) :
           ForwardCall(token, pos)
    \/ \E io \in BOOLEAN : EmbedStreaming(io)
    \/ EmbedResident
    \/ \E io \in BOOLEAN : LayerLoad(io)
    \/ LayerCompute
    \/ FinalNorm
    \/ \E io \in BOOLEAN : ClsStreaming(io)
    \/ ClsResident
    \/ \E layer \in (-1)..FwConfig.n_layers, io \in BOOLEAN : LoadLayerCall(layer, io)

(***************************************************************************)
(* Sampler.  A probability is a numerator over the common denominator of   *)
(* the buffer; expf is the power of four, so every quotient the source     *)
(* compares is an exact fraction here.  The generator is the xorshift*     *)
(* of the source on RngBits bits, its shifts scaled from 64 bits.          *)
(***************************************************************************)
MaxSmVocab == 3
MaxLogit == 1
MaxSeed == 10
MaxSamples == 2
TopDen == 4
RngBits == 8
RngMult == 29

RECURSIVE Pow2(_)
Pow2(k) == IF k <= 0 THEN 1 ELSE 2 * Pow2(k - 1)

RECURSIVE Xor(_, _)
\* a ^ b
Xor(a, b) ==
    IF a = 0 THEN b
    ELSE IF b = 0 THEN a
    ELSE ((a + b) % 2) + 2 * Xor(a \div 2, b \div 2)

RngMod == Pow2(RngBits)
\* the shift count k of the 64-bit generator on RngBits bits
ShiftOf(k) == (k * RngBits + 63) \div 64

\* *state ^= *state >> 12
XorShiftA(s) == Xor(s, s \div Pow2(ShiftOf(12)))
\* *state ^= *state << 25
XorShiftB(s) == Xor(s, (s * Pow2(ShiftOf(25))) % RngMod)
\* *state ^= *state >> 27
XorShiftC(s) == Xor(s, s \div Pow2(ShiftOf(27)))
\* the state random_u32 leaves
XorShift(s) == XorShiftC(XorShiftB(XorShiftA(s)))

\* random_u32: the upper half of state * multiplier
RandomU32(s) == ((XorShift(s) * RngMult) % RngMod) \div Pow2(RngBits - RngBits \div 2)

\* random_f32: the upper three quarters of random_u32, over CoinDen
CoinBits == (3 * RngBits) \div 8
CoinDen == Pow2(CoinBits)
RandomF32(s) == RandomU32(s) \div Pow2(RngBits \div 2 - CoinBits)

Temperatures == {0, 1, 2}
Topps == (-1)..(TopDen + 1)
LogitVectors(n) == [0..(n - 1) -> 0..MaxLogit]

\* logits[q] /= temperature; softmax_sampling(logits, n): the numerators
\* expf((x[i] - max_val) / temperature) and their sum
SoftmaxNum(x, n, temp, max_val) ==
    Eager([i \in 0..(n - 1) |-> Pow2((2 * (x[i] - max_val + MaxLogit)) \div temp)])
SoftmaxOf(num, n) == [num |-> num, den |-> SumF(num, n)]
SoftmaxSampling(x, n, temp) == SoftmaxOf(SoftmaxNum(x, n, temp, MaxF(x, n)), n)

\* (mutant) a later equal maximum replaces the earlier one
ExceedsOrEqual(a, b) == a >= b
\* probabilities[i] > max_p
Exceeds(a, b) == a > b

RECURSIVE ArgmaxFrom(_, _, _, _)
ArgmaxFrom(p, n, i, max_i) ==
    IF i >= n THEN max_i
    ELSE ArgmaxFrom(p, n, i + 1, IF Exceeds(p[i], p[max_i]) THEN i ELSE max_i)

\* sample_argmax(probabilities, n)
SampleArgmax(p, n) == ArgmaxFrom(p, n, 1, 0)

\* (mutant) the scan stops when the draw equals the cumulative sum
CoinBelowOrEqual(coin, cdf, den) == coin * den <= cdf * CoinDen
\* coin < cdf, with coin in units of 1/CoinDen and cdf in units of 1/den
CoinBelow(coin, cdf, den) == coin * den < cdf * CoinDen

RECURSIVE MultFrom(_, _, _, _, _, _)
MultFrom(p, den, n, coin, i, cdf) ==
    IF i >= n THEN n - 1
    ELSE IF CoinBelow(coin, cdf + p[i], den) THEN i
    ELSE MultFrom(p, den, n, coin, i + 1, cdf + p[i])

\* sample_mult(probabilities, n, coin)
SampleMult(p, den, n, coin) == MultFrom(p, den, n, coin, 0, 0)

\* probabilities[i] >= cutoff, cutoff = (1 - topp) / (n - 1); with n = 1 the
\* float quotient is +infinity and nothing reaches it
PassesCutoff(pi, den, n, topp) ==
    IF n = 1 THEN FALSE
    ELSE pi * (n - 1) * TopDen >= (TopDen - topp) * den

\* the indices copied into probindex[0 .. n0-1]
Candidates(p, den, n, topp) == {i \in 0..(n - 1) : PassesCutoff(p[i], den, n, topp)}

RECURSIVE Perms(_)
Perms(S) ==
    IF S = {} THEN {<<>>}
    ELSE UNION {{<<e>> \o t : t \in Perms(S \ {e})} : e \in S}

\* qsort(probindex, n0, ..., compare_prob): any descending order; the order
\* of equal probabilities is not specified
SortedOrders(p, cand) ==
    {s \in Perms(cand) : \A i \in 1..(Len(s) - 1) : p[s[i]] >= p[s[i + 1]]}

RECURSIVE TruncScan(_, _, _, _, _, _)
\* the truncation loop: last_idx (here counted from 1, so n0 - 1 is Len(s)
\* and -1 is 0) and cumulative_prob
TruncScan(p, den, s, topp, i, cum) ==
    IF i > Len(s) THEN [last |-> Len(s), cum |-> cum]
    ELSE IF (cum + p[s[i]]) * TopDen > topp * den
         THEN [last |-> i, cum |-> cum + p[s[i]]]
         ELSE TruncScan(p, den, s, topp, i + 1, cum + p[s[i]])

Undefined == -2

RECURSIVE ToppScan(_, _, _, _, _, _, _)
\* the selection loop with r = coin * cumulative_prob, then the fall-back
\* probindex[last_idx].index, which is outside the array when last_idx = -1
ToppScan(p, s, last, cum, coin, i, cdf) ==
    IF i > last THEN (IF last >= 1 THEN s[last] ELSE Undefined)
    ELSE IF coin * cum < (cdf + p[s[i]]) * CoinDen THEN s[i]
    ELSE ToppScan(p, s, last, cum, coin, i + 1, cdf + p[s[i]])

ToppSelect(p, s, t, coin) ==
    [next |-> ToppScan(p, s, t.last, t.cum, coin, 1, 0),
     kept |-> SubSeq(s, 1, t.last)]

\* sample_topp(probabilities, n, topp, probindex, coin) for the order s qsort
\* produced
SampleTopp(p, den, s, topp, coin) ==
    ToppSelect(p, s, TruncScan(p, den, s, topp, 1, 0), coin)

\* what an int read outside probindex may hold
AnyIndex(n) == (-1)..n

NoSample == [logits |-> <<>>, den |-> 1, rng |-> 0]

SmGhostInit ==
    /\ smNext = -1
    /\ smCoin = 0
    /\ smDraws = 0
    /\ smKept = <<>>
    /\ smCands = {}
    /\ smPre = NoSample
    /\ smOob = FALSE

\* build_sampler(sampler, vocab_size, temperature, topp, rng_seed) and the
\* logits of the first forward pass
SmInit ==
    /\ smN \in 1..MaxSmVocab
    /\ smTemp \in Temperatures
    /\ smTopp \in Topps
    /\ smRng \in 0..MaxSeed
    /\ smLogits \in LogitVectors(smN)
    /\ smDen = 1
    /\ smPc = "ready"
    /\ smCalls = 0
    /\ SmGhostInit

\* no sampler in use: the sampler state of the other specifications
SmIdle ==
    /\ smN = 1 /\ smTemp = 0 /\ smTopp = 0 /\ smRng = 0
    /\ smLogits = [i \in 0..0 |-> 0]
    /\ smDen = 1
    /\ smPc = "idle"
    /\ smCalls = 0
    /\ SmGhostInit

\* sample(sampler, logits), temperature == 0
SampleGreedy ==
    /\ smNext' = SampleArgmax(smLogits, smN)
    /\ smCoin' = 0 /\ smDraws' = 0 /\ smKept' = <<>> /\ smCands' = {}
    /\ smOob' = FALSE
    /\ UNCHANGED <<smRng, smLogits, smDen>>

\* sample(sampler, logits), temperature != 0, with the softmax sm and the draw
SampleRandom(sm, coin) ==
    /\ smLogits' = sm.num
    /\ smDen' = sm.den
    /\ smRng' = XorShift(smRng)
    /\ smDraws' = 1
    /\ smCoin' = coin
    /\ IF smTopp <= 0 \/ smTopp >= TopDen
       THEN /\ smNext' = SampleMult(sm.num, sm.den, smN, coin)
            /\ smKept' = <<>> /\ smCands' = {} /\ smOob' = FALSE
       ELSE /\ smCands' = Candidates(sm.num, sm.den, smN, smTopp)
            /\ \E s \in SortedOrders(sm.num, Candidates(sm.num, sm.den, smN, smTopp)) :
                  /\ smKept' = SampleTopp(sm.num, sm.den, s, smTopp, coin).kept
                  /\ IF SampleTopp(sm.num, sm.den, s, smTopp, coin).next = Undefined
                     THEN smNext' \in AnyIndex(smN) /\ smOob' = TRUE
                     ELSE /\ smNext' = SampleTopp(sm.num, sm.den, s, smTopp, coin).next
                          /\ smOob' = FALSE

\* sample(sampler, logits)
Sample ==
    /\ smPc = "ready"
    /\ smCalls < MaxSamples
    /\ smPc' = "sampled"
    /\ smCalls' = smCalls + 1
    /\ smPre' = [logits |-> smLogits, den |-> smDen, rng |-> smRng]
    /\ IF smTemp = 0
       THEN SampleGreedy
       ELSE SampleRandom(SoftmaxSampling(smLogits, smN, smTemp), RandomF32(smRng))
    /\ UNCHANGED <<smN, smTemp, smTopp>>
    /\ UNCHANGED notSm

\* the next forward pass has written fresh logits into the buffer
Refill(lg) ==
    /\ smPc = "sampled"
    /\ smCalls < MaxSamples
    /\ smLogits' = lg
    /\ smDen' = 1
    /\ smPc' = "ready"
    /\ smNext' = -1 /\ smCoin' = 0 /\ smDraws' = 0 /\ smKept' = <<>>
    /\ smCands' = {} /\ smPre' = NoSample /\ smOob' = FALSE
    /\ UNCHANGED <<smN, smTemp, smTopp, smRng, smCalls>>
    /\ UNCHANGED notSm

SampleNext ==
    \/ Sample
    \/ \E lg \in LogitVectors(smN) : Refill(lg)

(***************************************************************************)
(* Tokenizer.  A string is a sequence of byte values.  The vocabulary is   *)
(* ids 0..2 (unknown, beginning and end of sequence), optionally the 256   *)
(* raw-byte tokens "<0xHH>" at ids 3..258, then the strings of tkTail;     *)
(* its strings are pairwise distinct.                                      *)
(***************************************************************************)
MaxText == 2
MaxTail == 2

SpaceByte == 32
BosId == 1
EosId == 2
ByteBase == 3
NumBytes == 256

\* the bytes texts are made of: ' ', 'a', and the two bytes of U+00E9
TextBytes == {32, 97, 195, 169}
\* v4sf best_score = -1e10: the value a pass starts its search from, on the
\* scale of ScoreValues
BestScoreInit == -1
\* the scores a vocabulary file may give its strings, BestScoreInit among them
ScoreValues == {BestScoreInit, 0, 1}
\* the strings a vocabulary may hold after the fixed ids, in id order; the
\* last one is "<s>" followed by a space
TailOrder == << <<32>>, <<97>>, <<32, 97>>, <<97, 97>>, <<195, 169>>,
               <<60, 115, 62, 32>> >>
\* "<unk>", "<s>", "</s>"
Specials == << <<60, 117, 110, 107, 62>>, <<60, 115, 62>>, <<60, 47, 115, 62>> >>

\* the upper-case hexadecimal digit of d
HexChar(d) == IF d < 10 THEN 48 + d ELSE 55 + d
\* the string of the raw-byte token of byte b
ByteToken(b) == <<60, 48, 120, HexChar(b \div 16), HexChar(b % 16), 62>>

IsHex(c) == (c >= 48 /\ c <= 57) \/ (c >= 65 /\ c <= 70) \/ (c >= 97 /\ c <= 102)
HexVal(c) == IF c <= 57 THEN c - 48 ELSE IF c <= 70 THEN c - 55 ELSE c - 87

\* id of the first string of tkTail
TailBase == IF tkHasBytes THEN ByteBase + NumBytes ELSE ByteBase
\* t->vocab_size
VocabSize == TailBase + Len(tkTail)

\* t->vocab[id], for id inside the vocabulary
Vocab(id) ==
    IF id < ByteBase THEN Specials[id + 1]
    ELSE IF id < TailBase THEN ByteToken(id - ByteBase)
    ELSE tkTail[id - TailBase + 1]

\* t->vocab_scores[id]
Score(id) == IF id < TailBase THEN 0 ELSE tkScores[id - TailBase + 1]

InVocab(id) == id >= 0 /\ id < VocabSize

\* t->vocab[id] as the source reads it: outside the vocabulary the read is
\* out of bounds and yields whatever string g lies there
VocabOr(id, g) == IF InVocab(id) THEN Vocab(id) ELSE g

IsByteTokenString(piece) ==
    /\ Len(piece) = 6
    /\ piece[1] = 60 /\ piece[2] = 48 /\ piece[3] = 120 /\ piece[6] = 62
    /\ IsHex(piece[4]) /\ IsHex(piece[5])
    /\ piece = ByteToken(16 * HexVal(piece[4]) + HexVal(piece[5]))

\* str_lookup(piece, sorted_vocab, vocab_size): the id of piece, -1 if absent
StrLookup(piece) ==
    IF \E k \in 1..Len(tkTail) : tkTail[k] = piece
    THEN TailBase + (CHOOSE k \in 1..Len(tkTail) : tkTail[k] = piece) - 1
    ELSE IF tkHasBytes /\ IsByteTokenString(piece)
    THEN ByteBase + 16 * HexVal(piece[4]) + HexVal(piece[5])
    ELSE IF \E k \in 1..Len(Specials) : Specials[k] = piece
    THEN (CHOOSE k \in 1..Len(Specials) : Specials[k] = piece) - 1
    ELSE -1

\* (c & 0xC0) == 0x80: a UTF-8 continuation byte
IsContinuation(c) == (c \div 64) = 2

\* the byte after position i of the text, the terminating NUL at the end
ByteAfter(text, i) == IF i < Len(text) THEN text[i + 1] ELSE 0

RECURSIVE AddBytes(_, _, _)
\* tokens[(*n_tokens)++] = (unsigned char)str_buffer[i] + 3, for each i
AddBytes(toks, buf, i) ==
    IF i > Len(buf) THEN toks
    ELSE AddBytes(Append(toks, buf[i] + ByteBase), buf, i + 1)

\* the end of one iteration of the code point loop with str_buffer = buf
EmitCodePoint(toks, buf) ==
    IF StrLookup(buf) # -1 THEN Append(toks, StrLookup(buf)) ELSE AddBytes(toks, buf, 1)

RECURSIVE CodePointLoop(_, _, _, _)
\* for (char* c = text; *c != '\0'; c++), c at position i, str_buffer = buf
CodePointLoop(text, i, buf, toks) ==
    IF i > Len(text) THEN toks
    ELSE IF IsContinuation(ByteAfter(text, i))
            /\ Len(IF IsContinuation(text[i]) THEN buf ELSE <<>>) + 1 < 4
    THEN CodePointLoop(text, i + 1,
             Append(IF IsContinuation(text[i]) THEN buf ELSE <<>>, text[i]), toks)
    ELSE CodePointLoop(text, i + 1, <<>>,
             EmitCodePoint(toks,
                 Append(IF IsContinuation(text[i]) THEN buf ELSE <<>>, text[i])))

\* the tokens before the code point loop: bos, then the dummy prefix
PrefixTokens(text, bos) ==
    (IF bos THEN <<BosId>> ELSE <<>>)
    \o (IF text # <<>> THEN <<StrLookup(<<SpaceByte>>)>> ELSE <<>>)

\* best_score = -1e10, best_id = -1, best_idx = -1
NoMerge == [score |-> BestScoreInit, id |-> -1, idx |-> -1]

\* (mutant) a later pair of equal score replaces the earlier one
BetterOrEqual(a, b) == a >= b
\* t->vocab_scores[id] > best_score
Better(a, b) == a > b

RECURSIVE MergeScan(_, _, _, _)
\* the scan of one pass over the pairs (i, i+1), i counted from 1
MergeScan(toks, g, i, best) ==
    IF i > Len(toks) - 1 THEN best
    ELSE MergeScan(toks, g, i + 1,
             IF StrLookup(VocabOr(toks[i], g) \o VocabOr(toks[i + 1], g)) # -1
                /\ Better(Score(StrLookup(VocabOr(toks[i], g) \o VocabOr(toks[i + 1], g))),
                          best.score)
             THEN [score |-> Score(StrLookup(VocabOr(toks[i], g)
                                             \o VocabOr(toks[i + 1], g))),
                   id    |-> StrLookup(VocabOr(toks[i], g) \o VocabOr(toks[i + 1], g)),
                   idx   |-> i]
             ELSE best)

\* tokens[best_idx] = best_id, the later tokens shifted left by one
ApplyMerge(toks, idx, id) ==
    [k \in 1..(Len(toks) - 1) |->
        IF k < idx THEN toks[k] ELSE IF k = idx THEN id ELSE toks[k + 1]]

\* sscanf(piece, "<0x%02hhX>", &byte_val) == 1: the literal "<0x" and at
\* least one hexadecimal digit were matched
ScansAsByte(piece) ==
    /\ Len(piece) >= 4
    /\ piece[1] = 60 /\ piece[2] = 48 /\ piece[3] = 120
    /\ IsHex(piece[4])
ScannedByte(piece) ==
    IF Len(piece) >= 5 /\ IsHex(piece[5])
    THEN 16 * HexVal(piece[4]) + HexVal(piece[5])
    ELSE HexVal(piece[4])

\* piece++ when prev_token == 1 and piece[0] == ' '
SkipSpace(prev, piece) ==
    IF prev = BosId /\ piece # <<>> /\ piece[1] = SpaceByte THEN Tail(piece) ELSE piece

\* the byte_pieces entry of byte b: the empty string for the NUL byte
BytePiece(b) == IF b = 0 THEN <<>> ELSE <<b>>

DecodePiece(piece) == IF ScansAsByte(piece) THEN BytePiece(ScannedByte(piece)) ELSE piece

\* decode(t, prev_token, token), reading g where token is outside the vocabulary
Decode(prev, token, g) == DecodePiece(SkipSpace(prev, VocabOr(token, g)))

RECURSIVE DecodeFrom(_, _, _)
\* the pieces of tokens k .. n, concatenated, each decoded after its predecessor
DecodeFrom(toks, k, g) ==
    IF k > Len(toks) THEN <<>>
    ELSE Decode(toks[k - 1], toks[k], g) \o DecodeFrom(toks, k + 1, g)

\* what a read outside t->vocab may yield
GarbageStrings == {<<>>, <<SpaceByte>>, <<97>>}

Texts == UNION {[1..n -> TextBytes] : n \in 0..MaxText}
Tails ==
    {SelectSeq(TailOrder, LAMBDA s : s \in S) :
        S \in {T \in SUBSET {TailOrder[k] : k \in 1..Len(TailOrder)} :
                  Cardinality(T) <= MaxTail}}

NoLastMerge == [before |-> <<>>, idx |-> 0, id |-> -1]

TkGhostInit ==
    /\ tkTokens = <<>>
    /\ tkInitial = <<>>
    /\ tkMerges = 0
    /\ tkLast = NoLastMerge
    /\ tkOut = <<>>
    /\ tkOob = FALSE

\* build_tokenizer() has read a vocabulary; encode() is about to be called
TkInit ==
    /\ tkHasBytes \in BOOLEAN
    /\ tkTail \in Tails
    /\ tkScores \in [1..Len(tkTail) -> ScoreValues]
    /\ tkText \in Texts
    /\ tkBos \in BOOLEAN
    /\ tkEos \in BOOLEAN
    /\ tkPc = "call"
    /\ TkGhostInit

\* no tokenizer in use: the tokenizer state of the other specifications
TkIdle ==
    /\ tkHasBytes = FALSE /\ tkTail = <<>> /\ tkScores = <<>> /\ tkText = <<>>
    /\ tkBos = FALSE /\ tkEos = FALSE
    /\ tkPc = "idle"
    /\ TkGhostInit

\* encode() up to the merge loop: bos, dummy prefix, one lookup per code point
EncodeTokenize ==
    /\ tkPc = "call"
    /\ tkTokens' = CodePointLoop(tkText, 1, <<>>, PrefixTokens(tkText, tkBos))
    /\ tkInitial' = tkTokens'
    /\ tkPc' = "merge"
    /\ UNCHANGED <<tkHasBytes, tkTail, tkScores, tkText, tkBos, tkEos, tkMerges,
                   tkLast, tkOut, tkOob>>
    /\ UNCHANGED notTk

\* one pass of the merge loop that finds a pair: the best pair is replaced
MergePass(g) ==
    /\ tkPc = "merge"
    /\ MergeScan(tkTokens, g, 1, NoMerge).idx # -1
    /\ tkTokens' = ApplyMerge(tkTokens, MergeScan(tkTokens, g, 1, NoMerge).idx,
                              MergeScan(tkTokens, g, 1, NoMerge).id)
    /\ tkLast' = [before |-> tkTokens,
                  idx    |-> MergeScan(tkTokens, g, 1, NoMerge).idx,
                  id     |-> MergeScan(tkTokens, g, 1, NoMerge).id]
    /\ tkMerges' = tkMerges + 1
    /\ tkOob' = (tkOob \/ (Len(tkTokens) >= 2
                           /\ \E k \in 1..Len(tkTokens) : ~InVocab(tkTokens[k])))
    /\ UNCHANGED <<tkHasBytes, tkTail, tkScores, tkText, tkBos, tkEos, tkPc,
                   tkInitial, tkOut>>
    /\ UNCHANGED notTk

\* the pass that finds no pair: break, the eos token, return
MergeDone(g) ==
    /\ tkPc = "merge"
    /\ MergeScan(tkTokens, g, 1, NoMerge).idx = -1
    /\ tkTokens' = IF tkEos THEN Append(tkTokens, EosId) ELSE tkTokens
    /\ tkOob' = (tkOob \/ (Len(tkTokens) >= 2
                           /\ \E k \in 1..Len(tkTokens) : ~InVocab(tkTokens[k])))
    /\ tkPc' = "encoded"
    /\ UNCHANGED <<tkHasBytes, tkTail, tkScores, tkText, tkBos, tkEos, tkInitial,
                   tkMerges, tkLast, tkOut>>
    /\ UNCHANGED notTk

\* decode(prev, tok) for every token after the first, the pieces concatenated
DecodeAll(g) ==
    /\ tkPc = "encoded"
    /\ tkTokens # <<>>
    /\ tkOut' = DecodeFrom(tkTokens, 2, g)
    /\ tkOob' = (tkOob \/ \E k \in 2..Len(tkTokens) : ~InVocab(tkTokens[k]))
    /\ tkPc' = "decoded"
    /\ UNCHANGED <<tkHasBytes, tkTail, tkScores, tkText, tkBos, tkEos, tkTokens,
                   tkInitial, tkMerges, tkLast>>
    /\ UNCHANGED notTk

TokenizerNext ==
    \/ EncodeTokenize
    \/ \E g \in GarbageStrings : MergePass(g)
    \/ \E g \in GarbageStrings : MergeDone(g)
    \/ \E g \in GarbageStrings : DecodeAll(g)

(***************************************************************************)
(* Streaming loads next to the parallel matmul.  forward() runs on the     *)
(* caller's context and calls load_layer_from_sd and load_token_embedding  *)
(* between its matmul calls; the worker runs on the other core throughout. *)
(***************************************************************************)
WeightBuffers == {"layer_buffer", "embedding_buffer"}

StInit == bufWrite = "none"

\* t->sd_file.read((uint8_t*)t->layer_buffer, size) or
\* t->sd_file.read((uint8_t*)t->embedding_buffer, token_emb_size) starts
\* filling the buffer; the caller is between two matmul calls
SdReadBegin(buf) ==
    /\ callerPc \in {"idle", "returned"}
    /\ bufWrite = "none"
    /\ bufWrite' = buf
    /\ UNCHANGED notSt

\* the read returns: the buffer is complete
SdReadEnd ==
    /\ bufWrite # "none"
    /\ bufWrite' = "none"
    /\ UNCHANGED notSt

\* the caller is sequential: it is inside a load or inside matmul, never both
StreamCallerStep ==
    \/ bufWrite = "none" /\ CallerStep
    \/ \E buf \in WeightBuffers : SdReadBegin(buf)
    \/ SdReadEnd

StreamNext == StreamCallerStep \/ WorkerStep

(***************************************************************************)
(* Specifications.                                                         *)
(***************************************************************************)
\* the parallel matmul of a session whose load has completed
MatmulInit == MmInit /\ LdIdle /\ FwIdle /\ SmIdle /\ TkIdle /\ StInit

MatmulSpec == MatmulInit /\ [][MatmulNext]_vars

\* both contexts run on their own core: neither is starved
FairMatmulSpec == MatmulSpec /\ WF_vars(CallerStep) /\ WF_vars(WorkerStep)

\* the two load entry points applied to one checkpoint file
LoadInit == MmInit /\ LdInit /\ FwIdle /\ SmIdle /\ TkIdle /\ StInit

LoadSpec == LoadInit /\ [][LoadNext]_vars

\* forward passes of a loaded session, resident or streaming
ForwardInit == MmInit /\ LdIdle /\ FwInit /\ SmIdle /\ TkIdle /\ StInit

ForwardSpec == ForwardInit /\ [][ForwardNext]_vars

\* a sampler built with any parameters, sampling from successive logits
SampleInit == MmInit /\ LdIdle /\ FwIdle /\ SmInit /\ TkIdle /\ StInit

SampleSpec == SampleInit /\ [][SampleNext]_vars

\* encode of any text with any vocabulary, then decode of the ids it wrote
TokenizerInit == MmInit /\ LdIdle /\ FwIdle /\ SmIdle /\ TkInit /\ StInit

TokenizerSpec == TokenizerInit /\ [][TokenizerNext]_vars

\* the matmul calls and the streaming loads of a session opened from SD
StreamSpec == MatmulInit /\ [][StreamNext]_vars

(***************************************************************************)
(* Claims about the parallel matmul.                                       *)
(***************************************************************************)
RECURSIVE RefSum(_, _, _, _, _)
RefSum(ws, xs, i, n, j) ==
    IF j = 0 THEN 0
    ELSE RefSum(ws, xs, i, n, j - 1) + Wmat(ws, i * n + (j - 1)) * Xvec(xs, j - 1)

\* C1: when matmul returns, every xout[i], 0 <= i < d, equals the reference
\* sum over j of w[i*n + j] * x[j]; rows [0, d/2) were written by the caller
\* and rows [d/2, d) by the worker, for every d >= 1 and n >= 1.
C1_MatmulResult ==
    callerPc = "returned" =>
        \A i \in 0..(callD - 1) :
            /\ xout[i] = RefSum(callW, callX, i, callN, callN)
            /\ wroteBy[i] = IF i < callD \div 2 THEN "caller" ELSE "worker"

C1_Witness ==
    /\ callerPc = "returned"
    /\ callD = 3
    /\ calls = 2
    /\ wroteBy[0] = "caller" /\ wroteBy[1] = "worker" /\ wroteBy[2] = "worker"

\* C2: in every interleaving, matmul has not returned to its caller unless the
\* worker finished all of rows [d/2, d) of that same call and the caller
\* finished rows [0, d/2).
C2_NoEarlyReturn ==
    callerPc = "returned" =>
        /\ wHalfDone = calls
        /\ workerPc # "rows"
        /\ wi = callD
        /\ ci = callD \div 2

C2_Witness ==
    /\ callerPc = "returned"
    /\ calls = 2
    /\ wHalfDone = 2
    /\ callD = 2

\* C3: under fair scheduling every matmul call returns; no interleaving leaves
\* the caller blocked in the rendezvous while the worker is blocked on the
\* semaphore with no token left to wake it.
C3_NeverBothBlocked ==
    ~(callerPc = "sync_wait" /\ workerPc = "take" /\ sem = 0)

(***************************************************************************)
(* Claims about the checkpoint loaders.                                    *)
(***************************************************************************)
\* the checkpoint layout: element offset of the classifier block, which
\* follows the embedding table, the layers, the final norm and the two
\* rotary blocks
ClsBlockAfterRope(p) ==
    SizeofConfig \div SizeofFloat
    + p.vocab_size * p.dim
    + p.n_layers * (p.dim + p.dim * p.dim + 2 * p.dim * KvDim(p) + p.dim * p.dim
                    + p.dim + 3 * p.dim * p.hidden_dim)
    + p.dim
    + 2 * ((p.seq_len * HeadSize(p)) \div 2)

\* C5 (as amended): a positive encoded vocabulary size makes the resident
\* loader share the classifier with the token-embedding table, a negative
\* one makes wcls the separate block after the two skipped rotary blocks;
\* both loaders keep the absolute value as the vocabulary size, and the
\* streaming loader always binds wcls to its embedding-row buffer.
C5_SharedFlag ==
    /\ res.st = "ok" =>
          /\ res.config.vocab_size = Abs(hdr.vocab_size)
          /\ hdr.vocab_size > 0 =>
                res.weights.wcls = res.weights.token_embedding_table
          /\ hdr.vocab_size < 0 =>
                res.weights.wcls = ClsBlockAfterRope(res.config)
    /\ str.st = "ok" =>
          /\ str.config.vocab_size = Abs(hdr.vocab_size)
          /\ str.wcls = "embedding_buffer"

C5_Witness ==
    /\ res.st = "ok"
    /\ str.st = "ok"
    /\ hdr.vocab_size < 0
    /\ hdr.n_layers = 2
    /\ res.weights.wcls # res.weights.token_embedding_table

\* C5 as stated: a negative encoded vocabulary size means the classifier is
\* shared with the embedding table, a positive one means the separate block.
C5_NegativeMeansShared ==
    res.st = "ok" =>
        /\ res.config.vocab_size = Abs(hdr.vocab_size)
        /\ hdr.vocab_size < 0 =>
              res.weights.wcls = res.weights.token_embedding_table
        /\ hdr.vocab_size > 0 =>
              res.weights.wcls = ClsBlockAfterRope(res.config)

\* C6: for one checkpoint file, streaming mode reads each of the nine tensors
\* of every layer from the file offset at which resident mode maps it, and
\* both modes hold the same Config.
C6_StreamingReadsResidentOffsets ==
    (res.st = "ok" /\ str.st = "ok") =>
        /\ str.config = res.config
        /\ \A l \in 0..(res.config.n_layers - 1) : \A t \in TensorSet :
              StreamingTensorByte(str.layer_offsets, str.config, l, t)
                  = ResidentTensor(res.weights, res.config, l, t) * SizeofFloat

\* C9: a load entry point that reports success has every buffer allocated:
\* the weight data or streaming buffers, all run-state buffers, and the
\* matmul parameter block.
C9_SuccessMeansAllocated ==
    /\ res.st = "ok" =>
          (res.data /\ res.rs = RunStateBufs /\ res.params)
    /\ str.st = "ok" =>
          (str.sd_file /\ str.layer_buffer /\ str.embedding_buffer
           /\ str.rms_final /\ str.rs = RunStateBufs /\ str.params)

(***************************************************************************)
(* Claims about the forward pass.                                          *)
(***************************************************************************)
RECURSIVE RunLayers(_, _, _, _)
\* the layer loop of forward() from layer l on, streaming binding each layer
RunLayers(r, l, pos, mode) ==
    IF l >= FwConfig.n_layers THEN r
    ELSE RunLayers(LayerStep(r.x, r.kc, r.vc, l, pos, mode, l), l + 1, pos, mode)

\* final norm and classifier applied to the x the layer loop leaves
LogitsOf(xf, mode) ==
    IF mode = "streaming"
    THEN [i \in 0..(FwConfig.vocab_size - 1) |-> ClsRow(xf, i)]
    ELSE MatVec(xf, FwWeights.wcls, FwConfig.dim, FwConfig.vocab_size)

\* the logits a forward(token, pos) without load failure returns when it is
\* started on the caches kc and vc
ForwardLogits(token, pos, kc, vc, mode) ==
    LogitsOf(
        RmsNorm(RunLayers([x  |-> [j \in 0..(FwConfig.dim - 1) |->
                                      FileElem(EmbeddingRow(mode, token) + j)],
                           kc |-> kc, vc |-> vc], 0, pos, mode).x,
                FinalNormBase(mode), FwConfig.dim),
        mode)

\* the cache cells of positions after pos, of every layer
FutureCells(pos) ==
    {KvIndex(l, t, i) : l \in 0..(FwConfig.n_layers - 1),
                        t \in (pos + 1)..(FwConfig.seq_len - 1),
                        i \in 0..(KvDim(FwConfig) - 1)}

\* cache with every cell of positions after pos set to v
Overwritten(cache, pos, v) ==
    [c \in DOMAIN cache |-> IF c \in FutureCells(pos) THEN v ELSE cache[c]]

\* C4: during forward(token, pos) attention reads the key and value cache
\* only at positions 0..pos of each layer, and the logits returned do not
\* depend on the cache entries at positions after pos: started on caches that
\* differ from the actual ones only there, forward returns the same logits.
C4_Causality ==
    /\ \A r \in cacheReads : r[2] >= 0 /\ r[2] <= fwPos
    /\ (fwPc = "done" /\ fwRet = "logits" /\ ~oobRead) =>
          /\ ForwardLogits(fwTok, fwPos, snap.kc, snap.vc, fwMode) = logits
          /\ \A v \in Vals :
                /\ ForwardLogits(fwTok, fwPos, Overwritten(snap.kc, fwPos, v),
                                 Overwritten(snap.vc, fwPos, v), fwMode) = logits
                /\ \A c \in FutureCells(fwPos) :
                      /\ ForwardLogits(fwTok, fwPos, [snap.kc EXCEPT ![c] = v],
                                       snap.vc, fwMode) = logits
                      /\ ForwardLogits(fwTok, fwPos, snap.kc,
                                       [snap.vc EXCEPT ![c] = v], fwMode) = logits

\* a pass at position 0 has returned logits while the caches it started on
\* held non-zero keys and values at position 1, left by an earlier pass
C4_Witness ==
    /\ fwPc = "done" /\ fwRet = "logits" /\ ~oobRead
    /\ fwPos = 0
    /\ cacheReads = {<<l, 0>> : l \in 0..(FwConfig.n_layers - 1)}
    /\ \E c \in FutureCells(0) : snap.kc[c] # 0
    /\ \E c \in FutureCells(0) : snap.vc[c] # 0
    /\ \E i \in DOMAIN logits : logits[i] # 0

\* C7: in streaming mode, once the load of the token embedding, of a layer
\* or of a vocabulary row has failed, forward has returned null and has done
\* no layer computation and written no logit after the failing load.
C7_AbortOnLoadFailure ==
    fwFailedAt # "none" =>
        /\ fwMode = "streaming"
        /\ fwPc = "done"
        /\ fwRet = "null"
        /\ afterFail = 0
        /\ fwFailedAt = "embedding" => fwL = 0 /\ logits = snap.logits
        /\ fwFailedAt = "layer" => logits = snap.logits
        /\ fwFailedAt = "vocab_row" =>
              \A i \in fwI..(FwConfig.vocab_size - 1) : logits[i] = snap.logits[i]

\* a pass failed on the load of the second vocabulary row, after every layer
\* was computed and the first logit was written
C7_Witness ==
    /\ fwFailedAt = "vocab_row" /\ fwRet = "null" /\ fwPc = "done"
    /\ fwI = 1 /\ fwL = FwConfig.n_layers
    /\ logits[0] # snap.logits[0]

C10_OutOfRangeIsFailure ==
    /\ ~oobRead
    /\ (fwPc = "done" /\ (fwTok < 0 \/ fwTok >= FwConfig.vocab_size)) =>
          fwRet = "null"
    /\ (llRet.called /\ (llRet.layer < 0 \/ llRet.layer >= FwConfig.n_layers)) =>
          (~llRet.ok /\ ~llRet.read)

(***************************************************************************)
(* Claims about the sampler.                                               *)
(***************************************************************************)
RECURSIVE CumTo(_, _)
\* p[0] + ... + p[i]
CumTo(p, i) == IF i < 0 THEN 0 ELSE p[i] + CumTo(p, i - 1)

\* the indices whose cumulative probability exceeds the draw coin / CoinDen
Exceeding(p, den, n, coin) ==
    {i \in 0..(n - 1) : CumTo(p, i) * CoinDen > coin * den}

\* plain multinomial sampling of p / den with the draw coin / CoinDen
Multinomial(p, den, n, coin) ==
    IF Exceeding(p, den, n, coin) = {} THEN n - 1
    ELSE CHOOSE i \in Exceeding(p, den, n, coin) :
            \A j \in Exceeding(p, den, n, coin) : i <= j

\* C11: with temperature 0, sample returns the lowest index among the
\* maxima of the logits, whatever the PRNG state, and leaves the PRNG state
\* and the logits as they were.
C11_GreedyIsArgmax ==
    (smPc = "sampled" /\ smTemp = 0) =>
        /\ smNext \in 0..(smN - 1)
        /\ \A j \in 0..(smN - 1) : smPre.logits[j] <= smPre.logits[smNext]
        /\ \A j \in 0..(smNext - 1) : smPre.logits[j] < smPre.logits[smNext]
        /\ smRng = smPre.rng
        /\ smDraws = 0
        /\ smLogits = smPre.logits
        /\ smDen = smPre.den

\* a greedy call on three logits whose maximum occurs twice, not at index 0,
\* with a PRNG state that is not zero
C11_Witness ==
    /\ smPc = "sampled" /\ smTemp = 0
    /\ smN = 3
    /\ smPre.logits[0] < smPre.logits[1]
    /\ smPre.logits[1] = smPre.logits[2]
    /\ smNext = 1
    /\ smRng # 0

\* C12: with temperature > 0 and topp <= 0 or topp >= 1, sample returns what
\* plain multinomial sampling of the softmax of the logits returns for the
\* one draw the PRNG state gives: the first index whose cumulative
\* probability exceeds the draw, n - 1 if none; the PRNG advanced once.
C12_FullDistribution ==
    (smPc = "sampled" /\ smTemp > 0 /\ (smTopp <= 0 \/ smTopp >= TopDen)) =>
        /\ smDen = CumTo(smLogits, smN - 1)
        /\ \A i, j \in 0..(smN - 1) :
              (smPre.logits[i] <= smPre.logits[j]) <=> (smLogits[i] <= smLogits[j])
        /\ smCoin = RandomF32(smPre.rng)
        /\ smNext = Multinomial(smLogits, smDen, smN, smCoin)
        /\ smRng = XorShift(smPre.rng)
        /\ smDraws = 1

\* a call with topp >= 1 on three unequal probabilities returned an index
\* other than 0 for a draw above zero
C12_Witness ==
    /\ smPc = "sampled" /\ smTemp > 0 /\ smTopp >= TopDen
    /\ smN = 3
    /\ smCoin > 0
    /\ smNext = 1
    /\ smLogits[0] # smLogits[1]

\* C13: for n >= 2 and topp in (0,1), nucleus sampling returns an index of
\* the kept prefix of the sorted candidates, and its probability is at least
\* (1 - topp)/(n - 1) unless it is the sole candidate.
C13_NucleusWithinPrefix ==
    (smPc = "sampled" /\ smTemp > 0 /\ smTopp > 0 /\ smTopp < TopDen /\ smN >= 2) =>
        /\ \E k \in 1..Len(smKept) : smKept[k] = smNext
        /\ \/ smCands = {smNext}
           \/ /\ smNext \in 0..(smN - 1)
              /\ smLogits[smNext] * (smN - 1) * TopDen >= (TopDen - smTopp) * smDen

\* C14: sample returns an index in [0, vocab_size) that was read from a
\* filled candidate slot, for every vocab_size, temperature, topp, logits
\* and draw.
C14_SampleNeverFails ==
    smPc = "sampled" => (smNext \in 0..(smN - 1) /\ ~smOob)

(***************************************************************************)
(* Claims about the tokenizer.                                             *)
(***************************************************************************)
\* every byte of the text has a token: the raw-byte tokens are present, or
\* every code point of the text was found in the vocabulary
TextCovered ==
    \/ tkHasBytes
    \/ \A k \in (Len(PrefixTokens(tkText, tkBos)) + 1)..Len(tkInitial) :
          InVocab(tkInitial[k])

\* C15: for a non-empty text covered by the vocabulary, encode with the
\* beginning-of-sequence id followed by decode(prev, tok) over the ids after
\* it, concatenated, gives back the text byte for byte.
C15_RoundTrip ==
    (tkPc = "decoded" /\ tkBos /\ ~tkEos /\ tkText # <<>> /\ TextCovered) =>
        tkOut = tkText

(***************************************************************************)
(* Claims about who writes which buffer.                                   *)
(***************************************************************************)
CacheBuffers == {"key_cache", "value_cache"}

RECURSIVE TensorsBefore(_, _)
\* number of elements of the first k tensors of one layer, in the order
\* attention-norm, WQ, WK, WV, WO, FFN-norm, W1, W2, W3
TensorsBefore(p, k) ==
    IF k = 0 THEN 0 ELSE TensorsBefore(p, k - 1) + LayerStride(p, Tensors[k])

TensorIndex(t) == CHOOSE k \in 1..Len(Tensors) : Tensors[k] = t

\* element offset of tensor t of layer l in a file laid out as header,
\* embedding table, then for each layer in order its nine tensors
LayerMajorOffset(p, l, t) ==
    SizeofConfig \div SizeofFloat + p.vocab_size * p.dim
        + l * TensorsBefore(p, Len(Tensors))
        + TensorsBefore(p, TensorIndex(t) - 1)

\* C17: after a successful resident load, the pointer forward() uses for
\* each of the nine tensors of every layer l is at the element offset that
\* tensor has in the layout "embedding table, then for each layer in order
\* its nine tensors, then final norm".
C17_ResidentWalkMatchesLayout ==
    res.st = "ok" =>
        \A l \in 0..(res.config.n_layers - 1) : \A t \in TensorSet :
            ResidentTensor(res.weights, res.config, l, t)
                = LayerMajorOffset(res.config, l, t)

(***************************************************************************)
(* Claims about the loads of a streaming forward pass.                     *)
(***************************************************************************)
IsLayerLoad(e) == e.ev = "load_layer"
IsRowLoad(e) == e.ev = "load_row"
IsFinalNorm(e) == e.ev = "final_norm"

\* C18: a successful streaming forward call has loaded every layer exactly
\* once, in the order 0 .. n_layers-1, the load of layer l being the last
\* layer load before the computation of layer l, and after the final norm
\* it has loaded every vocabulary row exactly once, in the order
\* 0 .. vocab_size-1; while a layer is computed the layer buffer holds it.
C18_StreamingLoadOrder ==
    /\ (fwMode = "streaming" /\ fwPc = "layer") => layerBuf = fwL
    /\ (fwMode = "streaming" /\ fwPc = "done" /\ fwRet = "logits") =>
          LET layerLoads == SelectSeq(fwTrace, IsLayerLoad)
              rowLoads   == SelectSeq(fwTrace, IsRowLoad)
              n          == Len(fwTrace)
          IN  /\ layerLoads = [k \in 1..FwConfig.n_layers |->
                                  LayerLoaded(k - 1, TRUE)]
              /\ \A m \in 1..n :
                    fwTrace[m].ev = "layer" =>
                       /\ m > 1
                       /\ fwTrace[m - 1] = LayerLoaded(fwTrace[m].arg, TRUE)
              /\ \A l \in 0..(FwConfig.n_layers - 1) :
                    \E m \in 1..n : fwTrace[m] = LayerComputed(l)
              /\ rowLoads = [k \in 1..FwConfig.vocab_size |->
                                RowLoad(k - 1, TRUE)]
              /\ Len(SelectSeq(fwTrace, IsFinalNorm)) = 1
              /\ \A m \in 1..n :
                    fwTrace[m].ev = "load_row" =>
                       \A k \in 1..n :
                          fwTrace[k].ev \in {"load_layer", "layer", "final_norm"}
                             => k < m

\* a streaming call has returned the logits after loading two layers and
\* two vocabulary rows
C18_Witness ==
    /\ fwMode = "streaming"
    /\ fwPc = "done"
    /\ fwRet = "logits"
    /\ Len(SelectSeq(fwTrace, IsLayerLoad)) = 2
    /\ Len(SelectSeq(fwTrace, IsRowLoad)) = 2

(***************************************************************************)
(* Claims about the resident buffers of streaming mode.                    *)
(***************************************************************************)
\* C19: a successful streaming load has read the final norm weights into
\* their own buffer and, for a checkpoint whose classifier is not shared
\* with the embedding table, has given the classifier a buffer of its own,
\* so that the logits are not computed from embedding rows.
C19_UnsharedClassifierIsResident ==
    str.st = "ok" =>
        /\ str.rms_final
        /\ SharedWeights(hdr.vocab_size) = 0 => str.wcls # "embedding_buffer"

(***************************************************************************)
(* Claims about weight buffers and concurrency.                            *)
(***************************************************************************)
\* C20: whenever an SD read is filling the layer buffer or the embedding-row
\* buffer, the caller is outside every matmul call and the worker is at its
\* wait on semaDataReady with no token to take, so neither half of a matmul
\* is inside its row loop reading weights.
C20_LoadsWhileWorkerWaits ==
    bufWrite # "none" =>
        /\ callerPc \in {"idle", "returned"}
        /\ workerPc = "take"
        /\ sem = 0

\* the layer buffer is being refilled after a matmul call whose second half
\* the worker computed
C20_Witness ==
    /\ bufWrite = "layer_buffer"
    /\ callerPc = "returned"
    /\ wHalfDone >= 1
    /\ \E i \in 0..(MaxD - 1) : wroteBy[i] = "worker"

(***************************************************************************)
(* Claims about the merge loop of encode.                                  *)
(***************************************************************************)
\* the string the pair (i, i+1) of toks spells; both ids are vocabulary ids
PairString(toks, i) == Vocab(toks[i]) \o Vocab(toks[i + 1])

\* the pair (i, i+1) consists of vocabulary ids and its string is in the
\* vocabulary
PairFound(toks, i) ==
    /\ InVocab(toks[i])
    /\ InVocab(toks[i + 1])
    /\ StrLookup(PairString(toks, i)) # -1

PairScore(toks, i) == Score(StrLookup(PairString(toks, i)))

\* no found pair scores higher, and none of equal score lies to the left
IsBestPair(toks, i) ==
    /\ PairFound(toks, i)
    /\ \A j \in 1..(Len(toks) - 1) :
          PairFound(toks, j) =>
             \/ PairScore(toks, j) < PairScore(toks, i)
             \/ (PairScore(toks, j) = PairScore(toks, i) /\ j >= i)

\* C21: a pass of the merge loop over a token list with a found pair
\* replaces exactly one pair, the leftmost of the highest-scoring found
\* pairs, by the id of its string; the tokens before it stay, the tokens
\* after it move one place to the left, and the count drops by one.
C21_PassMergesBestPair ==
    [][tkPc = "merge" =>
          /\ (\E i \in 1..(Len(tkTokens) - 1) : PairFound(tkTokens, i))
                => tkMerges' = tkMerges + 1
          /\ tkMerges' = tkMerges + 1 =>
                /\ IsBestPair(tkTokens, tkLast'.idx)
                /\ tkTokens' =
                      SubSeq(tkTokens, 1, tkLast'.idx - 1)
                      \o <<StrLookup(PairString(tkTokens, tkLast'.idx))>>
                      \o SubSeq(tkTokens, tkLast'.idx + 2, Len(tkTokens))]_vars

\* the tokens of the merge loop: the output without the eos id once the
\* loop has ended
MergedTokens ==
    IF tkEos /\ tkPc \in {"encoded", "decoded"}
    THEN SubSeq(tkTokens, 1, Len(tkTokens) - 1)
    ELSE tkTokens

\* C22: when the merge loop has ended it has done at most (initial token
\* count - 1) merges, and no adjacent pair of the tokens it ended with
\* spells a string of the vocabulary.
C22_LoopEndsWithNothingToMerge ==
    tkPc = "encoded" =>
        /\ tkMerges <= Len(tkInitial) - 1 \/ tkMerges = 0
        /\ \A i \in 1..(Len(MergedTokens) - 1) :
              /\ InVocab(MergedTokens[i])
              /\ InVocab(MergedTokens[i + 1])
              /\ StrLookup(PairString(MergedTokens, i)) = -1

(***************************************************************************)
(* Claims about the ids encode writes.                                     *)
(***************************************************************************)
\* C23: in the output of encode the first id is 1 when bos is set and the
\* last id is 2 when eos is set; before merging, a non-empty text has the
\* id of the single-space string directly after the optional bos id, and
\* an empty text has no prefix token.
C23_BosPrefixEos ==
    tkPc = "encoded" =>
        /\ tkBos => (tkTokens # <<>> /\ tkTokens[1] = BosId)
        /\ tkEos => (tkTokens # <<>> /\ tkTokens[Len(tkTokens)] = EosId)
        /\ tkText # <<>> =>
              LET k == IF tkBos THEN 2 ELSE 1
              IN  /\ Len(tkInitial) >= k
                  /\ InVocab(tkInitial[k])
                  /\ Vocab(tkInitial[k]) = <<SpaceByte>>
        /\ tkText = <<>> => tkInitial = (IF tkBos THEN <<BosId>> ELSE <<>>)

(***************************************************************************)
(* Claims about the semaphore and the shared parameter block.              *)
(***************************************************************************)
\* C24: whenever the caller's xSemaphoreTake succeeds, the worker has taken
\* the token of this call, finished its half and given the token back: the
\* caller never consumes the token it gave itself.
C24_CallerTakesWorkersToken ==
    [][CallerTake => (wHalfDone = calls /\ workerPc \in {"sync", "sync_wait"})]_vars

\* C25: the caller writes the parameter block only while the worker is at
\* its xSemaphoreTake with no token to take, and from the worker's take to
\* the end of its rendezvous the block holds the arguments of the call in
\* progress: every read of the worker for a call lies between the caller's
\* write for that call and its write for the next.
C25_ParamsStableWhileRead ==
    /\ callerPc = "give" => (workerPc = "take" /\ sem = 0)
    /\ workerPc \in {"rows", "sync"} =>
          /\ callerPc \notin {"idle", "give", "returned"}
          /\ params = [xout |-> callOut, start |-> callD \div 2, end |-> callD,
                       n |-> callN, d |-> callD, w |-> callW, x |-> callX,
                       task_num |-> TASK_1_BIT]

\* the worker reads the block of the second of two consecutive calls while
\* the caller is still inside that call
C25_Witness ==
    /\ calls = 2
    /\ workerPc = "rows"
    /\ wi > params.start
    /\ callerPc = "rows"

(***************************************************************************)
(* Claims about the buffers and failure paths of open_sd_model.            *)
(***************************************************************************)
\* C26: after a successful streaming load the byte length of every entry
\* of the layer offset table is at most the size of the layer buffer.
C26_LayerFitsBuffer ==
    str.st = "ok" =>
        \A k \in 1..Len(str.layer_offsets) :
            str.layer_offsets[k].size <= str.layer_buffer_size

(***************************************************************************)
(* Claims about the cache writes of a forward call.                        *)
(***************************************************************************)
\* the cache cells of position pos, of every layer
SlotCells(pos) ==
    {KvIndex(l, pos, i) : l \in 0..(FwConfig.n_layers - 1),
                          i \in 0..(KvDim(FwConfig) - 1)}

C28_IdsAreVocabularyIndices ==
    /\ \A k \in 1..Len(tkTokens) : InVocab(tkTokens[k])
    /\ ~tkOob

RECURSIVE Spelled(_, _)
\* the vocabulary strings of the tokens, concatenated; an id outside the
\* vocabulary has no string and is kept as itself
Spelled(toks, k) ==
    IF k > Len(toks) THEN <<>>
    ELSE (IF InVocab(toks[k]) THEN Vocab(toks[k]) ELSE <<toks[k]>>)
         \o Spelled(toks, k + 1)

\* C29: the token list spells the same string after every merge pass as
\* before it, hence as the per-code-point tokenization did.
C29_MergeKeepsSpelling ==
    tkPc \in {"merge", "encoded"} =>
        Spelled(MergedTokens, 1) = Spelled(tkInitial, 1)

\* C30: after a failing return of open_sd_model the backing file is closed,
\* none of the layer buffer, embedding-row buffer and final-norm buffer is
\* still allocated, and use_streaming is not set.
C30_FailureReleasesEverything ==
    str.st = "failed" =>
        /\ ~str.sd_file
        /\ ~str.layer_buffer
        /\ ~str.embedding_buffer
        /\ ~str.rms_final
        /\ ~str.use_streaming

====
